---- MODULE Spec2Model ----
(***************************************************************************)
(* Player profiling engine of player_path (src/analysis/profiling.py with  *)
(* the tables of src/config/settings.py).                                  *)
(*                                                                         *)
(* Python dicts are insertion ordered, and the code depends on that order  *)
(* (max() and the stable sort keep the first of equal keys), so a dict is  *)
(* a sequence of entries with distinct keys.  Floats are exact reals: a    *)
(* score is the real number n/d - 100*sqrt(p/q), kept as [n, d, p, q], so  *)
(* that every comparison of the decision tree is decided exactly.          *)
(* EHP, EHB, experience and kill counts are integers.                      *)
(*                                                                         *)
(* build_player_profile and compute_journey_data are also modelled on the  *)
(* provider's JSON, where a key may be absent or null: a call returns its  *)
(* result or raises.  Timestamp strings are on the hour, with a zone       *)
(* suffix; aware datetimes compare by their instant.                       *)
(***************************************************************************)
EXTENDS Integers, Sequences, FiniteSets, TLC

VARIABLES
    profile,   \* the PlayerProfile object, or NoProfile before it exists
    origin,    \* "none", "constructor" or "build_player_profile"
    calls,     \* analyze() calls the caller has made on the profile
    other,     \* a second PlayerProfile object, built beside the first
    request,   \* the arguments of the call made, or NoRequest
    raised,    \* the exception the call raised, "" when it returned
    journey,   \* what compute_journey_data returned, or NoJourney
    shown      \* the virtual_level read from a skill, 0 before the read

vars == <<profile, origin, calls, other, request, raised, journey, shown>>

-----------------------------------------------------------------------------
(* Sequence helpers *)

Range(s) == {s[i] : i \in DOMAIN s}

RECURSIVE SumSeq(_)
SumSeq(s) == IF s = <<>> THEN 0 ELSE Head(s) + SumSeq(Tail(s))

RECURSIVE Select(_, _)
\* the entries of s whose index is in keep, in order (a comprehension's filter)
Select(s, keep) ==
    IF s = <<>> THEN <<>>
    ELSE LET rest == Select(Tail(s), {i - 1 : i \in keep \ {1}})
         IN  IF 1 \in keep THEN <<Head(s)>> \o rest ELSE rest

Take(s, n) == SubSeq(s, 1, IF Len(s) < n THEN Len(s) ELSE n)

-----------------------------------------------------------------------------
(* Strings: str.replace, str.title, str.lower work on characters, so the   *)
(* strings they are applied to are spelled out by CharsOf.                 *)

LowerCase == <<"a","b","c","d","e","f","g","h","i","j","k","l","m",
               "n","o","p","q","r","s","t","u","v","w","x","y","z">>
UpperCase == <<"A","B","C","D","E","F","G","H","I","J","K","L","M",
               "N","O","P","Q","R","S","T","U","V","W","X","Y","Z">>

IsLower(c) == \E i \in DOMAIN LowerCase : LowerCase[i] = c
IsUpper(c) == \E i \in DOMAIN UpperCase : UpperCase[i] = c
IsCased(c) == IsLower(c) \/ IsUpper(c)
ToUpper(c) == IF IsLower(c)
              THEN UpperCase[CHOOSE i \in DOMAIN LowerCase : LowerCase[i] = c]
              ELSE c
ToLower(c) == IF IsUpper(c)
              THEN LowerCase[CHOOSE i \in DOMAIN UpperCase : UpperCase[i] = c]
              ELSE c

RECURSIVE Join(_)
Join(cs) == IF cs = <<>> THEN "" ELSE Head(cs) \o Join(Tail(cs))

CharsOf(s) ==
    CASE s = "" -> <<>>
      [] s = "regular" -> <<"r","e","g","u","l","a","r">>
      [] s = "ironman" -> <<"i","r","o","n","m","a","n">>
      [] s = "group_ironman" ->
            <<"g","r","o","u","p","_","i","r","o","n","m","a","n">>
      [] s = "Combat" -> <<"C","o","m","b","a","t">>
      [] s = "Gathering" -> <<"G","a","t","h","e","r","i","n","g">>
      [] s = "Artisan" -> <<"A","r","t","i","s","a","n">>
      [] s = "Support" -> <<"S","u","p","p","o","r","t">>
      [] s = "Raids" -> <<"R","a","i","d","s">>
      [] s = "GWD" -> <<"G","W","D">>
      [] s = "Slayer" -> <<"S","l","a","y","e","r">>
      [] s = "Wilderness" -> <<"W","i","l","d","e","r","n","e","s","s">>
      [] s = "Other" -> <<"O","t","h","e","r">>
      [] s = "Z" -> <<"Z">>
      [] s = "+00:00" -> <<"+","0","0",":","0","0">>
      [] s = "+02:00" -> <<"+","0","2",":","0","0">>
      [] s = "not-a-date" -> <<"n","o","t","-","a","-","d","a","t","e">>

\* str.replace(old, new) for one-character old and new
str_replace(cs, old, new) == [i \in DOMAIN cs |-> IF cs[i] = old THEN new ELSE cs[i]]

\* str.title(): a cased character is upper-cased when the character before
\* it is not cased (or there is none), lower-cased otherwise
str_title(cs) ==
    [i \in DOMAIN cs |->
        IF i > 1 /\ IsCased(cs[i - 1]) THEN ToLower(cs[i]) ELSE ToUpper(cs[i])]

str_lower(cs) == [i \in DOMAIN cs |-> ToLower(cs[i])]

Digits == <<"0","1","2","3","4","5","6","7","8","9">>

\* the characters the model's strings use, in code point order
CodePoints ==
    <<"+", "-">> \o Digits \o <<":">> \o UpperCase \o <<"_">> \o LowerCase
Ord(c) == CHOOSE i \in DOMAIN CodePoints : CodePoints[i] = c

\* a < b on strings: the first differing character decides, a proper
\* prefix comes first
RECURSIVE str_less(_, _)
str_less(a, b) ==
    IF b = <<>> THEN FALSE
    ELSE IF a = <<>> THEN TRUE
    ELSE IF Head(a) = Head(b) THEN str_less(Tail(a), Tail(b))
    ELSE Ord(Head(a)) < Ord(Head(b))

\* n written with the given number of digits, zero padded
RECURSIVE Padded(_, _)
Padded(n, width) ==
    IF width = 0 THEN <<>>
    ELSE Padded(n \div 10, width - 1) \o <<Digits[(n % 10) + 1]>>

-----------------------------------------------------------------------------
(* Exact reals of the form n/d - 100*sqrt(p/q), d > 0, q > 0, p >= 0, in   *)
(* canonical form: n/d and p/q in lowest terms, and p/q not the square of  *)
(* a fraction unless p = 0 (a rational root is folded into n/d).  Equal    *)
(* reals then have equal representations.                                  *)

RECURSIVE GCD(_, _)
GCD(a, b) == IF b = 0 THEN a ELSE GCD(b, a % b)

Abs(x) == IF x < 0 THEN -x ELSE x

IsSquare(x) == \E r \in 0..x : r * r = x
Root(x) == CHOOSE r \in 0..x : r * r = x

Rat(n, d) ==
    LET g == GCD(Abs(n), d)
    IN  [n |-> n \div g, d |-> d \div g, p |-> 0, q |-> 1]

\* n/d - 100*sqrt(p/q)
Real(n, d, p, q) ==
    LET g  == GCD(p, q)
        p1 == p \div g
        q1 == q \div g
    IN  IF p = 0 THEN Rat(n, d)
        ELSE IF IsSquare(p1) /\ IsSquare(q1)
        THEN Rat(n * Root(q1) - 100 * Root(p1) * d, d * Root(q1))
        ELSE LET h == GCD(Abs(n), d)
             IN  [n |-> n \div h, d |-> d \div h, p |-> p1, q |-> q1]

\* v > k, for an integer k
GT(v, k) ==
    LET L == v.n - k * v.d
    IN  L > 0 /\ L * L * v.q > 10000 * v.p * v.d * v.d

\* v < k, for an integer k
LT(v, k) ==
    LET L == v.n - k * v.d
    IN  L < 0 \/ L * L * v.q < 10000 * v.p * v.d * v.d

EQ(v, k) == ~GT(v, k) /\ ~LT(v, k)

-----------------------------------------------------------------------------
(* src/config/settings.py *)

SKILLS ==
    <<"overall", "attack", "defence", "strength", "hitpoints", "ranged",
      "prayer", "magic", "cooking", "woodcutting", "fletching", "fishing",
      "firemaking", "crafting", "smithing", "mining", "herblore", "agility",
      "thieving", "slayer", "farming", "runecrafting", "hunter", "construction">>

\* SKILL_CATEGORIES with prayer listed under Support as well
SKILL_CATEGORIES_prayer_twice ==
    << <<"Combat", <<"attack", "strength", "defence", "hitpoints", "ranged",
                     "magic", "prayer">> >>,
       <<"Gathering", <<"mining", "fishing", "woodcutting", "farming", "hunter">> >>,
       <<"Artisan", <<"smithing", "crafting", "fletching", "cooking",
                      "firemaking", "herblore", "construction">> >>,
       <<"Support", <<"agility", "thieving", "slayer", "runecrafting",
                      "prayer">> >> >>

SKILL_CATEGORIES ==
    << <<"Combat", <<"attack", "strength", "defence", "hitpoints", "ranged",
                     "magic", "prayer">> >>,
       <<"Gathering", <<"mining", "fishing", "woodcutting", "farming", "hunter">> >>,
       <<"Artisan", <<"smithing", "crafting", "fletching", "cooking",
                      "firemaking", "herblore", "construction">> >>,
       <<"Support", <<"agility", "thieving", "slayer", "runecrafting">> >> >>

BOSS_CATEGORIES ==
    << <<"Raids", <<"chambers_of_xeric", "chambers_of_xeric_challenge_mode",
                    "theatre_of_blood", "theatre_of_blood_hard_mode",
                    "tombs_of_amascut", "tombs_of_amascut_expert">> >>,
       <<"GWD", <<"commander_zilyana", "general_graardor", "kreearra",
                  "kril_tsutsaroth", "nex">> >>,
       <<"Slayer", <<"cerberus", "abyssal_sire", "kraken",
                     "thermonuclear_smoke_devil", "grotesque_guardians",
                     "alchemical_hydra">> >>,
       <<"Wilderness", <<"callisto", "venenatis", "vetion", "chaos_elemental",
                         "scorpia", "king_black_dragon", "chaos_fanatic",
                         "crazy_archaeologist">> >>,
       <<"Other", <<"zulrah", "vorkath", "corporeal_beast", "giant_mole",
                    "kalphite_queen", "dagannoth_prime", "dagannoth_rex",
                    "dagannoth_supreme", "sarachnis", "the_gauntlet",
                    "the_corrupted_gauntlet", "nightmare", "phosanis_nightmare",
                    "phantom_muspah", "duke_sucellus", "the_leviathan",
                    "the_whisperer", "vardorvis">> >> >>

\* the ratio cutoffs 3.0 and 0.5 as fractions <<numerator, denominator>>
ARCHETYPE_CONFIG ==
    [ehp_ehb_ratio_skiller |-> <<3, 1>>,
     ehp_ehb_ratio_pvmer   |-> <<1, 2>>,
     boss_diversity_high   |-> 10,
     raid_kc_threshold     |-> 50]

\* BOSS_CATEGORIES.get("Raids", [])
RaidBosses ==
    LET hit == {i \in DOMAIN BOSS_CATEGORIES : BOSS_CATEGORIES[i][1] = "Raids"}
    IN  IF hit = {} THEN <<>> ELSE BOSS_CATEGORIES[CHOOSE i \in hit : TRUE][2]

-----------------------------------------------------------------------------
(* Python values that may be None are records: None itself, a dict with    *)
(* string keys (a TLA+ function on its keys), a list that may be None      *)
(* wrapped as [list |-> <<...>>], and a call that raised as                *)
(* [raised |-> the exception's name].                                      *)

None == [py |-> "None"]
Raised(exception) == [raised |-> exception]
IsRaised(r) == "raised" \in DOMAIN r
EmptyDict == [k \in {} |-> None]

-----------------------------------------------------------------------------
(* dict access on a sequence of entries *)

\* name in self.skills / self.bosses
HasKey(d, name) == \E i \in DOMAIN d : d[i].name = name
\* self.skills[name] / self.bosses[name]
Lookup(d, name) == d[CHOOSE i \in DOMAIN d : d[i].name = name]

\* d[key] = value on a dict whose key order is never read
DictSet(d, key, value) ==
    [k \in DOMAIN d \cup {key} |-> IF k = key THEN value ELSE d[k]]
\* d.get(key, default)
DictGet(d, key, default) == IF key \in DOMAIN d THEN d[key] ELSE default

\* list.sort(key=lambda x: x[1], reverse=True): stable, so equal keys keep
\* their order.  One insertion step puts x after every entry with key >= x's.
RECURSIVE InsertDesc(_, _)
InsertDesc(sorted, x) ==
    IF sorted = <<>> THEN <<x>>
    ELSE IF Head(sorted)[2] >= x[2]
         THEN <<Head(sorted)>> \o InsertDesc(Tail(sorted), x)
         ELSE <<x>> \o sorted

RECURSIVE SortDesc(_)
SortDesc(items) ==
    IF items = <<>> THEN <<>>
    ELSE InsertDesc(SortDesc(SubSeq(items, 1, Len(items) - 1)), items[Len(items)])

\* max(items, key=lambda x: x[1]): the first entry with the largest key
FirstMax(items) ==
    items[CHOOSE i \in DOMAIN items :
            /\ \A j \in DOMAIN items : items[j][2] <= items[i][2]
            /\ \A j \in 1..(i - 1) : items[j][2] < items[i][2]]

-----------------------------------------------------------------------------
(* src/analysis/profiling.py: the data classes *)

SkillData(name, level, experience, rank, ehp) ==
    [name |-> name, level |-> level, experience |-> experience,
     rank |-> rank, ehp |-> ehp]

BossData(name, kills, rank, ehb) ==
    [name |-> name, kills |-> kills, rank |-> rank, ehb |-> ehb]

\* the dataclass constructor: the computed fields take their defaults
PlayerProfile(player_type, total_level, total_experience, ehp, ehb, skills, bosses) ==
    [player_type |-> player_type,
     total_level |-> total_level,
     total_experience |-> total_experience,
     ehp |-> ehp,
     ehb |-> ehb,
     skills |-> skills,
     bosses |-> bosses,
     last_updated |-> None,
     snapshot_count |-> 0,
     first_snapshot |-> None,
     archetype |-> "",
     archetype_description |-> "",
     playstyle_scores |-> <<>>,
     skill_category_xp |-> <<>>,
     top_skills |-> <<>>,
     top_bosses |-> <<>>]

NoProfile == [player_type |-> "none"]
NoRequest == [op |-> "none"]
NoJourney == [snapshot_count |-> -1]

-----------------------------------------------------------------------------
(* PlayerProfile.analyze and its steps; self is the profile, the result is *)
(* the profile after the step.                                             *)

\* sum(self.skills[s].experience for s in skill_names if s in self.skills)
CategoryTotal(self, skill_names) ==
    SumSeq([i \in DOMAIN skill_names |->
              IF HasKey(self.skills, skill_names[i])
              THEN Lookup(self.skills, skill_names[i]).experience
              ELSE 0])

compute_skill_categories(self) ==
    [self EXCEPT !.skill_category_xp =
        [i \in DOMAIN SKILL_CATEGORIES |->
            <<SKILL_CATEGORIES[i][1], CategoryTotal(self, SKILL_CATEGORIES[i][2])>>]]

\* compute_top_skills that ranks the overall record with the skills
compute_top_skills_with_overall(self) ==
    LET skill_xp == [i \in DOMAIN self.skills |->
                       <<self.skills[i].name, self.skills[i].experience>>]
    IN  [self EXCEPT !.top_skills = Take(SortDesc(skill_xp), 5)]

compute_top_skills(self) ==
    LET skill_xp ==
            Select([i \in DOMAIN self.skills |->
                      <<self.skills[i].name, self.skills[i].experience>>],
                   {i \in DOMAIN self.skills : self.skills[i].name # "overall"})
    IN  [self EXCEPT !.top_skills = Take(SortDesc(skill_xp), 5)]

\* compute_top_bosses with a sort that puts the later of two bosses with
\* equal kills first
compute_top_bosses_later_first(self) ==
    LET boss_kc ==
            Select([i \in DOMAIN self.bosses |->
                      <<self.bosses[i].name, self.bosses[i].kills>>],
                   {i \in DOMAIN self.bosses : self.bosses[i].kills > 0})
        reversed == [i \in DOMAIN boss_kc |-> boss_kc[Len(boss_kc) - i + 1]]
    IN  [self EXCEPT !.top_bosses = Take(SortDesc(reversed), 5)]

compute_top_bosses(self) ==
    LET boss_kc ==
            Select([i \in DOMAIN self.bosses |->
                      <<self.bosses[i].name, self.bosses[i].kills>>],
                   {i \in DOMAIN self.bosses : self.bosses[i].kills > 0})
    IN  [self EXCEPT !.top_bosses = Take(SortDesc(boss_kc), 5)]

\* skiller_score that is neutral whenever EHB is 0
skiller_score_neutral_without_ehb(self) ==
    LET hi == ARCHETYPE_CONFIG.ehp_ehb_ratio_skiller
        lo == ARCHETYPE_CONFIG.ehp_ehb_ratio_pvmer
    IN  IF self.ehb > 0
        THEN IF self.ehp * hi[2] > hi[1] * self.ehb
             THEN Rat(100, 1)
             ELSE IF self.ehp * lo[2] < lo[1] * self.ehb
             THEN Rat(0, 1)
             ELSE Rat((self.ehp * lo[2] - lo[1] * self.ehb) * hi[2] * 100,
                      self.ehb * (hi[1] * lo[2] - lo[1] * hi[2]))
        ELSE Rat(50, 1)

\* skiller_score that interpolates with ratio / hi * 100
skiller_score_from_zero(self) ==
    LET hi == ARCHETYPE_CONFIG.ehp_ehb_ratio_skiller
        lo == ARCHETYPE_CONFIG.ehp_ehb_ratio_pvmer
    IN  IF self.ehb > 0
        THEN IF self.ehp * hi[2] > hi[1] * self.ehb
             THEN Rat(100, 1)
             ELSE IF self.ehp * lo[2] < lo[1] * self.ehb
             THEN Rat(0, 1)
             ELSE Rat(self.ehp * hi[2] * 100, self.ehb * hi[1])
        ELSE IF self.ehp > 0 THEN Rat(100, 1) ELSE Rat(50, 1)

\* skiller_vs_pvmer: 0 = pure PvM, 100 = pure skiller
skiller_score(self) ==
    LET hi == ARCHETYPE_CONFIG.ehp_ehb_ratio_skiller
        lo == ARCHETYPE_CONFIG.ehp_ehb_ratio_pvmer
    IN  IF self.ehb > 0
        THEN IF self.ehp * hi[2] > hi[1] * self.ehb            \* ratio > 3.0
             THEN Rat(100, 1)
             ELSE IF self.ehp * lo[2] < lo[1] * self.ehb       \* ratio < 0.5
             THEN Rat(0, 1)
             ELSE \* (ratio - lo) / (hi - lo) * 100
                  Rat((self.ehp * lo[2] - lo[1] * self.ehb) * hi[2] * 100,
                      self.ehb * (hi[1] * lo[2] - lo[1] * hi[2]))
        ELSE IF self.ehp > 0 THEN Rat(100, 1) ELSE Rat(50, 1)

\* min(100, bosses_with_kc / boss_diversity_high * 100)
diversity_score(self) ==
    LET bosses_with_kc ==
            Cardinality({i \in DOMAIN self.bosses : self.bosses[i].kills > 0})
        high == ARCHETYPE_CONFIG.boss_diversity_high
    IN  IF bosses_with_kc * 100 >= 100 * high
        THEN Rat(100, 1) ELSE Rat(bosses_with_kc * 100, high)

\* raid_score that sums the kills of every boss
raid_score_all_bosses(self) ==
    LET raid_kc == SumSeq([i \in DOMAIN self.bosses |-> self.bosses[i].kills])
        threshold == ARCHETYPE_CONFIG.raid_kc_threshold
    IN  IF raid_kc * 100 >= 100 * threshold
        THEN Rat(100, 1) ELSE Rat(raid_kc * 100, threshold)

\* min(100, raid_kc / raid_kc_threshold * 100)
raid_score(self) ==
    LET raid_kc ==
            SumSeq([i \in DOMAIN RaidBosses |->
                      IF HasKey(self.bosses, RaidBosses[i])
                      THEN Lookup(self.bosses, RaidBosses[i]).kills ELSE 0])
        threshold == ARCHETYPE_CONFIG.raid_kc_threshold
    IN  IF raid_kc * 100 >= 100 * threshold
        THEN Rat(100, 1) ELSE Rat(raid_kc * 100, threshold)

\* balance_score without the floor max(0, ...)
balance_score_unfloored(self) ==
    IF self.skill_category_xp # <<>>
    THEN LET values == [i \in DOMAIN self.skill_category_xp |->
                           self.skill_category_xp[i][2]]
             N == Len(values)
             S == SumSeq(values)
             p == SumSeq([i \in DOMAIN values |->
                             (values[i] * N - S) * (values[i] * N - S)])
             q == N * S * S
         IN  IF S > 0 THEN Real(100, 1, p, q) ELSE Rat(50, 1)
    ELSE Rat(50, 1)

\* max(0, 100 - cv * 100) with cv = sqrt(variance) / mean_xp, so that
\* cv^2 = sum((v*N - S)^2) / (N * S^2) for the N values v with sum S
balance_score(self) ==
    IF self.skill_category_xp # <<>>
    THEN LET values == [i \in DOMAIN self.skill_category_xp |->
                           self.skill_category_xp[i][2]]
             N == Len(values)
             S == SumSeq(values)
             p == SumSeq([i \in DOMAIN values |->
                             (values[i] * N - S) * (values[i] * N - S)])
             q == N * S * S
         IN  IF S > 0                                   \* mean_xp > 0
             THEN IF p > q THEN Rat(0, 1) ELSE Real(100, 1, p, q)
             ELSE Rat(50, 1)
    ELSE Rat(50, 1)

\* self.skill_category_xp.get("Combat", 0)
combat_xp(self) ==
    LET hit == {i \in DOMAIN self.skill_category_xp :
                  self.skill_category_xp[i][1] = "Combat"}
    IN  IF hit = {} THEN 0
        ELSE self.skill_category_xp[CHOOSE i \in hit : TRUE][2]

\* combat_xp / total_xp * 100 if total_xp > 0 else 50
combat_focus(self) ==
    IF self.total_experience > 0
    THEN Rat(combat_xp(self) * 100, self.total_experience)
    ELSE Rat(50, 1)

\* the five assignments update the dict in place
compute_playstyle_scores(self) ==
    [self EXCEPT !.playstyle_scores =
        DictSet(DictSet(DictSet(DictSet(DictSet(@,
            "skiller_vs_pvmer", skiller_score(self)),
            "boss_diversity", diversity_score(self)),
            "raid_focus", raid_score(self)),
            "skill_balance", balance_score(self)),
            "combat_focus", combat_focus(self))]

\* the category of BOSS_CATEGORIES.items() the for loop breaks at, or "" when
\* the loop runs to its else clause
BossCategoryOf(top_boss) ==
    LET hit == {i \in DOMAIN BOSS_CATEGORIES :
                  top_boss \in Range(BOSS_CATEGORIES[i][2])}
    IN  IF hit = {} THEN ""
        ELSE BOSS_CATEGORIES[CHOOSE i \in hit : \A j \in hit : i <= j][1]

Labelled(self, archetype, description) ==
    [self EXCEPT !.archetype = archetype, !.archetype_description = description]

\* skiller_branch with the hybrid branch's cutoff of 50 for skill_balance
skiller_branch_cutoff_50(self, balance) ==
    IF GT(balance, 50)
    THEN Labelled(self, "Balanced Skiller",
                  "Well-rounded skill training across all categories")
    ELSE IF self.skill_category_xp # <<>>
    THEN LET top_cat == FirstMax(self.skill_category_xp)
         IN  Labelled(self, top_cat[1] \o " Specialist",
                      "Focused primarily on "
                          \o Join(str_lower(CharsOf(top_cat[1]))) \o " skills")
    ELSE Labelled(self, "Skiller", "Focuses on skill training over combat")

\* the skiller branch (skiller_score > 80)
skiller_branch(self, balance) ==
    IF GT(balance, 70)
    THEN Labelled(self, "Balanced Skiller",
                  "Well-rounded skill training across all categories")
    ELSE IF self.skill_category_xp # <<>>
    THEN LET top_cat == FirstMax(self.skill_category_xp)
         IN  Labelled(self, top_cat[1] \o " Specialist",
                      "Focused primarily on "
                          \o Join(str_lower(CharsOf(top_cat[1]))) \o " skills")
    ELSE Labelled(self, "Skiller", "Focuses on skill training over combat")

\* pvm_branch with the boss_diversity rule tried before the raid_focus rule
pvm_branch_diversity_first(self, raid, diversity) ==
    IF GT(diversity, 70)
    THEN Labelled(self, "Boss Hunter", "Experienced across many different bosses")
    ELSE IF GT(raid, 70)
    THEN Labelled(self, "Raider", "Heavy focus on raid content (CoX, ToB, ToA)")
    ELSE IF self.top_bosses # <<>> /\ BossCategoryOf(self.top_bosses[1][1]) # ""
    THEN LET category == BossCategoryOf(self.top_bosses[1][1])
         IN  Labelled(self, category \o " Specialist",
                      "Primary focus on "
                          \o Join(str_lower(CharsOf(category))) \o " content")
    ELSE Labelled(self, "PvMer", "Focuses on boss content and combat")

\* pvm_branch that takes the first boss of self.bosses for the top boss
pvm_branch_first_boss(self, raid, diversity) ==
    IF GT(raid, 70)
    THEN Labelled(self, "Raider", "Heavy focus on raid content (CoX, ToB, ToA)")
    ELSE IF GT(diversity, 70)
    THEN Labelled(self, "Boss Hunter", "Experienced across many different bosses")
    ELSE IF self.bosses # <<>> /\ BossCategoryOf(self.bosses[1].name) # ""
    THEN LET category == BossCategoryOf(self.bosses[1].name)
         IN  Labelled(self, category \o " Specialist",
                      "Primary focus on "
                          \o Join(str_lower(CharsOf(category))) \o " content")
    ELSE Labelled(self, "PvMer", "Focuses on boss content and combat")

\* the PvM branch (skiller_score < 30)
pvm_branch(self, raid, diversity) ==
    IF GT(raid, 70)
    THEN Labelled(self, "Raider", "Heavy focus on raid content (CoX, ToB, ToA)")
    ELSE IF GT(diversity, 70)
    THEN Labelled(self, "Boss Hunter", "Experienced across many different bosses")
    ELSE IF self.top_bosses # <<>> /\ BossCategoryOf(self.top_bosses[1][1]) # ""
    THEN LET category == BossCategoryOf(self.top_bosses[1][1])
         IN  Labelled(self, category \o " Specialist",
                      "Primary focus on "
                          \o Join(str_lower(CharsOf(category))) \o " content")
    ELSE Labelled(self, "PvMer", "Focuses on boss content and combat")

\* hybrid_branch with "or" for "and" in the first guard
hybrid_branch_or(self, raid, balance) ==
    IF GT(raid, 50) \/ GT(balance, 50)
    THEN Labelled(self, "Completionist",
                  "Balanced progression across skilling and PvM")
    ELSE IF GT(raid, 50)
    THEN Labelled(self, "Raiding Hybrid", "Mixes raid content with skill training")
    ELSE Labelled(self, "All-Rounder",
                  "Enjoys varied content without strong specialization")

\* the hybrid branch
hybrid_branch(self, raid, balance) ==
    IF GT(raid, 50) /\ GT(balance, 50)
    THEN Labelled(self, "Completionist",
                  "Balanced progression across skilling and PvM")
    ELSE IF GT(raid, 50)
    THEN Labelled(self, "Raiding Hybrid", "Mixes raid content with skill training")
    ELSE Labelled(self, "All-Rounder",
                  "Enjoys varied content without strong specialization")

\* archetype_tree with the band limits 80 and 30 taken into the outer bands
archetype_tree_inclusive(self) ==
    LET scores    == self.playstyle_scores
        skiller   == DictGet(scores, "skiller_vs_pvmer", Rat(50, 1))
        raid      == DictGet(scores, "raid_focus", Rat(0, 1))
        diversity == DictGet(scores, "boss_diversity", Rat(0, 1))
        balance   == DictGet(scores, "skill_balance", Rat(50, 1))
    IN  IF ~LT(skiller, 80) THEN skiller_branch(self, balance)
        ELSE IF ~GT(skiller, 30) THEN pvm_branch(self, raid, diversity)
        ELSE hybrid_branch(self, raid, balance)

\* the decision tree: every path assigns archetype and archetype_description
archetype_tree(self) ==
    LET scores    == self.playstyle_scores
        skiller   == DictGet(scores, "skiller_vs_pvmer", Rat(50, 1))
        raid      == DictGet(scores, "raid_focus", Rat(0, 1))
        diversity == DictGet(scores, "boss_diversity", Rat(0, 1))
        balance   == DictGet(scores, "skill_balance", Rat(50, 1))
    IN  IF GT(skiller, 80) THEN skiller_branch(self, balance)
        ELSE IF LT(skiller, 30) THEN pvm_branch(self, raid, diversity)
        ELSE hybrid_branch(self, raid, balance)

\* type_name without the title-casing
type_name_no_title(player_type) == Join(str_replace(CharsOf(player_type), "_", " "))

\* self.player_type.replace("_", " ").title()
type_name(player_type) == Join(str_title(str_replace(CharsOf(player_type), "_", " ")))

\* account type modifiers: an empty player_type is falsy
account_type_modifier(self) ==
    IF self.player_type # "" /\ self.player_type # "regular"
    THEN [self EXCEPT !.archetype = type_name(self.player_type) \o " " \o @]
    ELSE self

\* determine_archetype that keeps a label the profile already has, and
\* applies the account type modifier to it again
determine_archetype_keep(self) ==
    account_type_modifier(IF self.archetype = "" THEN archetype_tree(self) ELSE self)

determine_archetype(self) == account_type_modifier(archetype_tree(self))

analyze(self) ==
    determine_archetype(
        compute_playstyle_scores(
            compute_top_bosses(
                compute_top_skills(
                    compute_skill_categories(self)))))

-----------------------------------------------------------------------------
(* SkillData.virtual_level *)

\* the list xp_table of the property: entry L is the experience of level L
xp_table ==
    <<0, 83, 174, 276, 388, 512, 650, 801, 969, 1154, 1358, 1584,
      1833, 2107, 2411, 2746, 3115, 3523, 3973, 4470, 5018, 5624,
      6291, 7028, 7842, 8740, 9730, 10824, 12031, 13363, 14833, 16456,
      18247, 20224, 22406, 24815, 27473, 30408, 33648, 37224, 41171,
      45529, 50339, 55649, 61512, 67983, 75127, 83014, 91721, 101333,
      111945, 123660, 136594, 150872, 166636, 184040, 203254, 224466,
      247886, 273742, 302288, 333804, 368599, 407015, 449428, 496254,
      547953, 605032, 668051, 737627, 814445, 899257, 992895, 1096278,
      1210421, 1336443, 1475581, 1629200, 1798808, 1986068, 2192818,
      2421087, 2673114, 2951373, 3258594, 3597792, 3972294, 4385776,
      4842295, 5346332, 5902831, 6517253, 7195629, 7944614, 8771558,
      9684577, 10692629, 11805606, 13034431>>

\* math.floor(l + 300 * 2**(l/7)) for l = 1..126.  The seventh root is beyond
\* 32-bit integer arithmetic, so the values are tabulated: entry l is
\* l + n for the n with n^7 <= 300^7 * 2^l < (n + 1)^7, which is what the
\* float expression yields for every l of the table.
floor_terms ==
    <<332, 367, 406, 449, 497, 549, 607, 670, 740, 817, 902, 996,
      1099, 1214, 1339, 1478, 1632, 1801, 1987, 2193, 2421, 2671,
      2948, 3254, 3591, 3963, 4374, 4828, 5328, 5881, 6491, 7164,
      7908, 8728, 9635, 10635, 11739, 12958, 14304, 15790, 17430,
      19242, 21241, 23449, 25886, 28577, 31547, 34827, 38449, 42447,
      46861, 51734, 57115, 63055, 69614, 76856, 84851, 93678, 103424,
      114184, 126064, 139181, 153663, 169652, 187305, 206796, 228315,
      252075, 278307, 307270, 339247, 374552, 413533, 456571, 504089,
      556552, 614477, 678430, 749040, 827001, 913075, 1008110,
      1113036, 1228884, 1356790, 1498009, 1653929, 1826077, 2016145,
      2225996, 2457691, 2713502, 2995940, 3307778, 3652074, 4032208,
      4451909, 4915298, 5426919, 5991795, 6615469, 7304061, 8064327,
      8903729, 9830505, 10853747, 11983498, 13230845, 14608027,
      16128559, 17807362, 19660912, 21707396, 23966897, 26461589,
      29215952, 32257015, 35614621, 39321719, 43414686, 47933688,
      52923071, 58431796, 64513921, 71229132, 78643326>>

\* sum(... for l in range(first, last + 1)), by halves
RECURSIVE sum_terms(_, _)
sum_terms(first, last) ==
    IF first > last THEN 0
    ELSE IF first = last THEN floor_terms[first]
    ELSE LET middle == (first + last) \div 2
         IN  sum_terms(first, middle) + sum_terms(middle + 1, last)

\* int(sum(math.floor(l + 300 * 2**(l/7)) / 4 for l in range(1, level + 1))):
\* the quarters add up exactly in a float, and int() drops the fraction
xp_for_level(level) == sum_terms(1, level) \div 4

\* the property virtual_level of a SkillData
virtual_level(skill) ==
    IF skill.experience < 13034431 THEN skill.level
    ELSE LET below == {level \in 99..126 :
                          skill.experience < xp_for_level(level)}
         IN  IF below = {} THEN 126
             ELSE (CHOOSE level \in below : \A o \in below : level <= o) - 1

-----------------------------------------------------------------------------
(* build_player_profile.  player_data is the payload: type, the skills     *)
(* mapping (name -> [level, experience]), the bosses mapping in payload    *)
(* order (entries [name, kills]) and the computed ehp and ehb values.      *)

\* parse_skills that records every skill of SKILLS, the absent ones with the
\* defaults
parse_skills_zero_filled(skills_data) ==
    [i \in DOMAIN SKILLS |->
        IF SKILLS[i] \in DOMAIN skills_data
        THEN SkillData(SKILLS[i], skills_data[SKILLS[i]].level,
                       skills_data[SKILLS[i]].experience, -1, 0)
        ELSE SkillData(SKILLS[i], 1, 0, -1, 0)]

\* for skill_name in SKILLS: if skill_name in skills_data: ...
parse_skills(skills_data) ==
    LET all == [i \in DOMAIN SKILLS |->
                  IF SKILLS[i] \in DOMAIN skills_data
                  THEN SkillData(SKILLS[i], skills_data[SKILLS[i]].level,
                                 skills_data[SKILLS[i]].experience, -1, 0)
                  ELSE SkillData(SKILLS[i], 1, 0, -1, 0)]
    IN  Select(all, {i \in DOMAIN SKILLS : SKILLS[i] \in DOMAIN skills_data})

\* parse_bosses that keeps the untracked bosses
parse_bosses_keep_untracked(bosses_data) ==
    [i \in DOMAIN bosses_data |->
        BossData(bosses_data[i].name, bosses_data[i].kills, -1, 0)]

\* for boss_name, b in bosses_data.items(): if kills >= 0: ...
parse_bosses(bosses_data) ==
    Select([i \in DOMAIN bosses_data |->
              BossData(bosses_data[i].name, bosses_data[i].kills, -1, 0)],
           {i \in DOMAIN bosses_data : bosses_data[i].kills >= 0})

\* the profile as constructed at the end of build_player_profile
new_profile(player_data) ==
    LET skills == parse_skills(player_data.skills)
        overall_skill == IF HasKey(skills, "overall") THEN Lookup(skills, "overall")
                         ELSE SkillData("overall", 1, 0, -1, 0)
        username == DictGet(player_data, "username", "Unknown")
    IN  PlayerProfile(player_data.type, overall_skill.level,
                      overall_skill.experience, player_data.ehp, player_data.ehb,
                      skills, parse_bosses(player_data.bosses))
        @@ [username     |-> username,
            display_name |-> DictGet(player_data, "displayName", username),
            player_id    |-> DictGet(player_data, "id", 0),
            build        |-> DictGet(player_data, "build", "main"),
            combat_level |-> DictGet(player_data, "combatLevel", 3)]

\* build_player_profile without the closing profile.analyze()
build_without_analyze(player_data) == new_profile(player_data)

build_player_profile(player_data) == analyze(new_profile(player_data))

-----------------------------------------------------------------------------
(* Timestamps.  A string "YYYY-MM-DDTHH:00:00" followed by a zone ("Z" or  *)
(* an offset) is the record [date |-> <<y, m, d>>, hour |-> h, zone |-> z];*)
(* any other string s is [text |-> s].  A datetime is                      *)
(* [date, hour, utcoffset], the offset in hours.                           *)

\* the characters of a string
str_text(s) ==
    IF "text" \in DOMAIN s THEN CharsOf(s.text)
    ELSE Padded(s.date[1], 4) \o <<"-">> \o Padded(s.date[2], 2) \o <<"-">>
            \o Padded(s.date[3], 2) \o <<"T">> \o Padded(s.hour, 2)
            \o <<":","0","0",":","0","0">> \o CharsOf(s.zone)

\* bool(s) of a string or None
Truthy(s) == s # None /\ s # [text |-> ""]

\* a or b
py_or(a, b) == IF Truthy(a) THEN a ELSE b

\* s.endswith("Z")
endswith_Z(s) ==
    LET cs == str_text(s) IN cs # <<>> /\ cs[Len(cs)] = "Z"

\* s[:-1] + "+00:00", of a string that ends with "Z"
utc_suffix(s) ==
    IF "text" \in DOMAIN s
    THEN [text |-> Join(SubSeq(CharsOf(s.text), 1, Len(CharsOf(s.text)) - 1))
                      \o "+00:00"]
    ELSE [s EXCEPT !.zone = "+00:00"]

\* the offset a zone suffix denotes, in hours
ZoneHours(zone) ==
    CASE zone = "+00:00" -> 0
      [] zone = "+02:00" -> 2
      [] zone = "Z" -> 0

\* datetime.fromisoformat(s)
fromisoformat(s) ==
    IF "text" \in DOMAIN s THEN Raised("ValueError")
    ELSE [date |-> s.date, hour |-> s.hour, utcoffset |-> ZoneHours(s.zone)]

\* if s.endswith("Z"): s = s[:-1] + "+00:00"; datetime.fromisoformat(s)
parse_timestamp(s) == fromisoformat(IF endswith_Z(s) THEN utc_suffix(s) ELSE s)

\* days from 1970-01-01 to the date (proleptic Gregorian calendar)
DaysFromCivil(date) ==
    LET y   == IF date[2] <= 2 THEN date[1] - 1 ELSE date[1]
        era == y \div 400
        yoe == y - era * 400
        mp  == IF date[2] > 2 THEN date[2] - 3 ELSE date[2] + 9
        doy == (153 * mp + 2) \div 5 + date[3] - 1
        doe == yoe * 365 + yoe \div 4 - yoe \div 100 + doy
    IN  era * 146097 + doe - 719468

\* aware datetimes compare by their instant: hours from the epoch, in UTC
Instant(dt) == DaysFromCivil(dt.date) * 24 + dt.hour - dt.utcoffset

\* min(dates) / max(dates): the first of the earliest / latest
min_date(dates) ==
    dates[CHOOSE i \in DOMAIN dates :
            /\ \A j \in DOMAIN dates : Instant(dates[i]) <= Instant(dates[j])
            /\ \A j \in 1..(i - 1) : Instant(dates[j]) > Instant(dates[i])]
max_date(dates) ==
    dates[CHOOSE i \in DOMAIN dates :
            /\ \A j \in DOMAIN dates : Instant(dates[j]) <= Instant(dates[i])
            /\ \A j \in 1..(i - 1) : Instant(dates[j]) < Instant(dates[i])]

\* (last - first).days
days_between(first, last) == (Instant(last) - Instant(first)) \div 24

-----------------------------------------------------------------------------
(* build_player_profile(player_data, snapshots) on the provider's JSON.    *)
(* player_data is a dict with optional keys "type", "latestSnapshot",      *)
(* "updatedAt", "lastChangedAt"; latestSnapshot.data holds "skills" (name  *)
(* -> [level, experience]), "bosses" ([entries |-> the mapping in payload  *)
(* order]) and "computed" ("ehp" and "ehb", each a dict with "value").     *)
(* snapshots is None or [list |-> the snapshots], a snapshot a dict with   *)
(* optional keys "createdAt" and "data".  A JSON null is None.             *)

\* the fields read from latestSnapshot, or the exception the reads raise
extract_payload(player_data) ==
    LET latest == DictGet(player_data, "latestSnapshot", EmptyDict)
    IN  IF latest = None THEN Raised("AttributeError")
        ELSE
        LET data == DictGet(latest, "data", EmptyDict)
        IN  IF data = None THEN Raised("AttributeError")
            ELSE
            LET skills_data == DictGet(data, "skills", EmptyDict)
                bosses_data == DictGet(data, "bosses", [entries |-> <<>>])
                computed    == DictGet(data, "computed", EmptyDict)
            IN  IF skills_data = None THEN Raised("TypeError")
                ELSE IF bosses_data = None THEN Raised("AttributeError")
                ELSE IF computed = None THEN Raised("AttributeError")
                ELSE
                LET ehp == DictGet(computed, "ehp", EmptyDict)
                    ehb == DictGet(computed, "ehb", EmptyDict)
                IN  IF ehp = None \/ ehb = None THEN Raised("AttributeError")
                    ELSE [type   |-> DictGet(player_data, "type", "regular"),
                          ehp    |-> DictGet(ehp, "value", 0),
                          ehb    |-> DictGet(ehb, "value", 0),
                          skills |-> skills_data,
                          bosses |-> bosses_data.entries]
                         @@ [k \in DOMAIN player_data
                                     \cap {"username", "displayName", "id",
                                           "build", "combatLevel"}
                               |-> player_data[k]]

\* last_updated: a parse failure leaves it None
last_updated_of(player_data) ==
    LET updated_str == py_or(DictGet(player_data, "updatedAt", None),
                             DictGet(player_data, "lastChangedAt", None))
        parsed == parse_timestamp(updated_str)
    IN  IF Truthy(updated_str) /\ ~IsRaised(parsed) THEN parsed ELSE None

\* bool(snapshots) of a list or None
NonEmptyList(snapshots) == snapshots # None /\ snapshots.list # <<>>

\* the createdAt values the loop parses: those that are truthy
created_values(items) ==
    LET created == [i \in DOMAIN items |-> DictGet(items[i], "createdAt", None)]
    IN  Select(created, {i \in DOMAIN items : Truthy(created[i])})

\* first_snapshot: one try block holds the whole loop and the min(), so a
\* ValueError of any snapshot leaves first_snapshot None
first_snapshot_of(snapshots) ==
    IF ~NonEmptyList(snapshots) THEN None
    ELSE LET created == created_values(snapshots.list)
             dates == [i \in DOMAIN created |-> parse_timestamp(created[i])]
         IN  IF \E i \in DOMAIN dates : IsRaised(dates[i]) THEN None
             ELSE IF dates # <<>> THEN min_date(dates)
             ELSE None

\* the whole call: the profile returned, or the exception raised
build_player_profile_call(player_data, snapshots) ==
    LET payload == extract_payload(player_data)
    IN  IF IsRaised(payload) THEN payload
        ELSE [build_player_profile(payload) EXCEPT
                 !.last_updated = last_updated_of(player_data),
                 !.snapshot_count =
                    IF NonEmptyList(snapshots) THEN Len(snapshots.list) ELSE 0,
                 !.first_snapshot = first_snapshot_of(snapshots)]

-----------------------------------------------------------------------------
(* compute_journey_data(snapshots) *)

\* lambda x: x.get("createdAt", "")
sort_key(snap) == DictGet(snap, "createdAt", [text |-> ""])

\* sorted(..., key=...): stable, ascending on the strings.  One insertion
\* step puts x after every entry whose key is not greater than x's.
RECURSIVE InsertByKey(_, _)
InsertByKey(sorted, x) ==
    IF sorted = <<>> THEN <<x>>
    ELSE IF str_less(str_text(sort_key(x)), str_text(sort_key(Head(sorted))))
         THEN <<x>> \o sorted
         ELSE <<Head(sorted)>> \o InsertByKey(Tail(sorted), x)

RECURSIVE SortByKey(_)
SortByKey(items) ==
    IF items = <<>> THEN <<>>
    ELSE InsertByKey(SortByKey(SubSeq(items, 1, Len(items) - 1)), items[Len(items)])

\* one pass of the loop body: "continue", the exception raised, or the
\* timeline entry appended
timeline_entry(snap) ==
    LET created == DictGet(snap, "createdAt", None)
        date    == parse_timestamp(created)
        data    == DictGet(snap, "data", EmptyDict)
    IN  IF ~Truthy(created) THEN [continue |-> TRUE]
        ELSE IF IsRaised(date) THEN [continue |-> TRUE]
        ELSE IF data = None THEN Raised("AttributeError")
        ELSE
        LET skills   == DictGet(data, "skills", EmptyDict)
            computed == DictGet(data, "computed", EmptyDict)
        IN  IF skills = None THEN Raised("AttributeError")
            ELSE
            LET overall == DictGet(skills, "overall", EmptyDict)
            IN  IF overall = None \/ computed = None THEN Raised("AttributeError")
                ELSE
                LET ehp == DictGet(computed, "ehp", EmptyDict)
                    ehb == DictGet(computed, "ehb", EmptyDict)
                IN  IF ehp = None \/ ehb = None THEN Raised("AttributeError")
                    ELSE [date        |-> date,
                          total_level |-> DictGet(overall, "level", 0),
                          total_xp    |-> DictGet(overall, "experience", 0),
                          ehp         |-> DictGet(ehp, "value", 0),
                          ehb         |-> DictGet(ehb, "value", 0)]

level_thresholds == <<500, 750, 1000, 1250, 1500, 1750, 2000, 2277>>

\* milestones_at that leaves the threshold loop at the first threshold crossed
milestones_at_first_threshold(timeline, i) ==
    LET prev_level == timeline[i - 1].total_level
        curr_level == timeline[i].total_level
        crossed == {k \in DOMAIN level_thresholds :
                       prev_level < level_thresholds[k]
                       /\ level_thresholds[k] <= curr_level}
    IN  IF crossed = {} THEN <<>>
        ELSE LET k == CHOOSE c \in crossed : \A o \in crossed : c <= o
             IN  <<[date |-> timeline[i].date,
                    type |-> "total_level",
                    value |-> level_thresholds[k],
                    description |-> "Reached " \o ToString(level_thresholds[k])
                                       \o " total level"]>>

\* the milestones of timeline[i] against timeline[i-1]
milestones_at(timeline, i) ==
    LET prev_level == timeline[i - 1].total_level
        curr_level == timeline[i].total_level
        all == [k \in DOMAIN level_thresholds |->
                  [date |-> timeline[i].date,
                   type |-> "total_level",
                   value |-> level_thresholds[k],
                   description |-> "Reached " \o ToString(level_thresholds[k])
                                      \o " total level"]]
    IN  Select(all, {k \in DOMAIN level_thresholds :
                        prev_level < level_thresholds[k]
                        /\ level_thresholds[k] <= curr_level})

\* for i in range(1, len(timeline)): ..., from the i given
RECURSIVE milestones_from(_, _)
milestones_from(timeline, i) ==
    IF i > Len(timeline) THEN <<>>
    ELSE milestones_at(timeline, i) \o milestones_from(timeline, i + 1)

\* f"{years:.1f}" of years = days_covered / 365: the nearest tenth
years_text(days_covered) ==
    LET tenths == (days_covered * 20 + 365) \div 730
    IN  ToString(tenths \div 10) \o "." \o ToString(tenths % 10)

\* data_coverage with a span of 7 days still "limited history"
data_coverage_week_limited(timeline) ==
    IF timeline = <<>> THEN "No historical data available"
    ELSE
    LET dates == [i \in DOMAIN timeline |-> timeline[i].date]
        days_covered == days_between(min_date(dates), max_date(dates))
        count == ToString(Len(timeline)) \o " snapshots over "
    IN  IF days_covered <= 7
        THEN count \o ToString(days_covered) \o " days (limited history)"
        ELSE IF days_covered < 30
        THEN count \o ToString(days_covered) \o " days"
        ELSE IF days_covered < 365
        THEN count \o "~" \o ToString(days_covered \div 30) \o " months"
        ELSE count \o "~" \o years_text(days_covered) \o " years"

data_coverage(timeline) ==
    IF timeline = <<>> THEN "No historical data available"
    ELSE
    LET dates == [i \in DOMAIN timeline |-> timeline[i].date]
        days_covered == days_between(min_date(dates), max_date(dates))
        count == ToString(Len(timeline)) \o " snapshots over "
    IN  IF days_covered < 7
        THEN count \o ToString(days_covered) \o " days (limited history)"
        ELSE IF days_covered < 30
        THEN count \o ToString(days_covered) \o " days"
        ELSE IF days_covered < 365
        THEN count \o "~" \o ToString(days_covered \div 30) \o " months"
        ELSE count \o "~" \o years_text(days_covered) \o " years"

\* the caller's list after a call that sorts it in place (snapshots.sort)
caller_snapshots_sorted_in_place(snapshots) ==
    IF NonEmptyList(snapshots)
       /\ \A i \in DOMAIN snapshots.list : sort_key(snapshots.list[i]) # None
    THEN [list |-> SortByKey(snapshots.list)]
    ELSE snapshots

\* the caller's list after the call: sorted() builds a new list and the loop
\* only reads the snapshots, so the list is as it was handed over
caller_snapshots(snapshots) == snapshots

\* compute_journey_data with snapshot_count the length of the list given
compute_journey_data_counting_input(snapshots) ==
    IF ~NonEmptyList(snapshots)
    THEN [timeline |-> <<>>, milestones |-> <<>>,
          data_coverage |-> "No historical data available",
          snapshot_count |-> 0]
    ELSE
    LET items == snapshots.list
    IN  IF Len(items) >= 2 /\ \E i \in DOMAIN items : sort_key(items[i]) = None
        THEN Raised("TypeError")
        ELSE
        LET ordered == SortByKey(items)
            passes  == [i \in DOMAIN ordered |-> timeline_entry(ordered[i])]
            timeline == Select(passes, {i \in DOMAIN passes :
                                           "date" \in DOMAIN passes[i]})
        IN  IF \E i \in DOMAIN passes : IsRaised(passes[i])
            THEN Raised("AttributeError")
            ELSE [timeline |-> timeline,
                  milestones |-> milestones_from(timeline, 2),
                  data_coverage |-> data_coverage(timeline),
                  snapshot_count |-> Len(items)]

\* the mapping returned, or the exception raised.  Ordering two keys of
\* which one is None raises TypeError, and a sort of two items or more
\* compares every key.
compute_journey_data(snapshots) ==
    IF ~NonEmptyList(snapshots)
    THEN [timeline |-> <<>>, milestones |-> <<>>,
          data_coverage |-> "No historical data available",
          snapshot_count |-> 0]
    ELSE
    LET items == snapshots.list
    IN  IF Len(items) >= 2 /\ \E i \in DOMAIN items : sort_key(items[i]) = None
        THEN Raised("TypeError")
        ELSE
        LET ordered == SortByKey(items)
            passes  == [i \in DOMAIN ordered |-> timeline_entry(ordered[i])]
            timeline == Select(passes, {i \in DOMAIN passes :
                                           "date" \in DOMAIN passes[i]})
        IN  IF \E i \in DOMAIN passes : IsRaised(passes[i])
            THEN Raised("AttributeError")
            ELSE [timeline |-> timeline,
                  milestones |-> milestones_from(timeline, 2),
                  data_coverage |-> data_coverage(timeline),
                  snapshot_count |-> Len(timeline)]

-----------------------------------------------------------------------------
(* The payloads the model draws from *)

MaxXP == 2          \* experience of a skill: 0..MaxXP
MaxFillers == 8     \* bosses tracked with one kill each, besides the leads
MaxCalls == 2       \* analyze() calls by the caller

PlayerTypes == {"regular", "group_ironman", ""}
EHPValues == {0, 5, 7}
EHBValues == {0, 2, 4}

\* one skill of each category, and the overall record.  The payload holds no
\* skill, a combat skill with the overall record, or the four category skills
CategorySkills == {"attack", "mining", "smithing", "agility"}
SkillSets == {{}, {"attack", "overall"}, CategorySkills}

SkillsData ==
    UNION {[S -> [level : {1}, experience : 0..MaxXP]] : S \in SkillSets}

\* no skills, one skill, or the four category skills level with each other
BasicSkillsData ==
    {<<>>,
     [k \in {"attack", "overall"} |-> [level |-> 1, experience |-> 1]],
     [k \in CategorySkills \cup {"overall"} |-> [level |-> 1, experience |-> 1]]}

\* The provider lists every boss, with kills = -1 for an untracked one.  The
\* model's payload lists a raid boss, a boss of no category and the filler
\* bosses, of which the first m are tracked with one kill.
RaidKills == {-1, 0, 25, 26, 35, 36}
ZukKills == {-1, 2}
FillerBosses ==
    <<"zulrah", "nex", "kraken", "callisto", "vorkath", "cerberus",
      "scorpia", "sarachnis", "nightmare", "vardorvis">>

BossesData ==
    {<<[name |-> "chambers_of_xeric", kills |-> r], [name |-> "tzkal_zuk", kills |-> z]>>
        \o [i \in DOMAIN FillerBosses |->
              [name |-> FillerBosses[i], kills |-> IF i <= m THEN 1 ELSE -1]]
     : r \in RaidKills, z \in ZukKills, m \in 0..MaxFillers}

BasicBossesData ==
    {<<>>, <<[name |-> "chambers_of_xeric", kills |-> 26]>>}

\* rich skills with basic bosses, or rich bosses with basic skills
Payloads ==
    {[type |-> t, ehp |-> ehp, ehb |-> ehb, skills |-> sd, bosses |-> bd] :
        t \in PlayerTypes, ehp \in EHPValues, ehb \in EHBValues,
        sd \in SkillsData, bd \in BasicBossesData}
    \cup
    {[type |-> t, ehp |-> ehp, ehb |-> ehb, skills |-> sd, bosses |-> bd] :
        t \in PlayerTypes, ehp \in EHPValues, ehb \in EHBValues,
        sd \in BasicSkillsData, bd \in BossesData}

-----------------------------------------------------------------------------
(* The state machine: a profile is built from a payload by                 *)
(* build_player_profile, or constructed by the caller, and then analyzed   *)
(* by the caller any number of times.                                      *)

Init ==
    /\ profile = NoProfile
    /\ other = NoProfile
    /\ origin = "none"
    /\ calls = 0
    /\ request = NoRequest
    /\ raised = ""
    /\ journey = NoJourney
    /\ shown = 0

\* profile = build_player_profile(player_data)
Build ==
    /\ origin = "none"
    /\ \E player_data \in Payloads : profile' = build_player_profile(player_data)
    /\ origin' = "build_player_profile"
    /\ UNCHANGED <<calls, other, request, raised, journey, shown>>

\* profile = PlayerProfile(...), with the field values of a payload
Construct ==
    /\ origin = "none"
    /\ \E player_data \in Payloads : profile' = new_profile(player_data)
    /\ origin' = "constructor"
    /\ UNCHANGED <<calls, other, request, raised, journey, shown>>

\* profile.analyze()
Analyze ==
    /\ origin \in {"constructor", "build_player_profile"}
    /\ calls < MaxCalls
    /\ profile' = analyze(profile)
    /\ calls' = calls + 1
    /\ UNCHANGED <<origin, other, request, raised, journey, shown>>

Next == Build \/ Construct \/ Analyze

Spec == Init /\ [][Next]_vars

-----------------------------------------------------------------------------
(* Two profiles side by side: each is built from its own payload *)

PairTypes == {"regular", "group_ironman"}
PairEfficiency == {<<5, 0>>, <<7, 0>>, <<0, 2>>, <<0, 4>>, <<0, 0>>}
PairSkillsData ==
    {<<>>} \cup {[k \in {name} |-> [level |-> 1, experience |-> 1]] :
                    name \in {"attack", "mining"}}
PairBossesData ==
    {<<>>,
     <<[name |-> "nex", kills |-> 1], [name |-> "zulrah", kills |-> 2]>>,
     <<[name |-> "zulrah", kills |-> 2], [name |-> "nex", kills |-> 1]>>,
     <<[name |-> "chambers_of_xeric", kills |-> 36]>>}

PairPayloads ==
    {[type |-> t, ehp |-> e[1], ehb |-> e[2], skills |-> sd, bosses |-> bd] :
        t \in PairTypes, e \in PairEfficiency,
        sd \in PairSkillsData, bd \in PairBossesData}

InitPair == Init

\* profile = build_player_profile(a); other = build_player_profile(b)
BuildPair ==
    /\ origin = "none"
    /\ \E a \in PairPayloads, b \in PairPayloads :
          /\ profile' = build_player_profile(a)
          /\ other' = build_player_profile(b)
    /\ origin' = "pair"
    /\ UNCHANGED <<calls, request, raised, journey, shown>>

NextPair == BuildPair

SpecPair == InitPair /\ [][NextPair]_vars

-----------------------------------------------------------------------------
(* The calls the model draws from: provider JSON with absent and null      *)
(* fields and unparsable timestamps, snapshot lists, boss mappings.        *)

MaxSnapshots == 2   \* snapshots in a list
MaxKills == 2       \* kills of a ranked boss: 0..MaxKills
MaxEHP == 12        \* computed ehp of a payload: 0..MaxEHP
MaxEHB == 6         \* computed ehb of a payload: 0..MaxEHB

\* the dicts that lack the key or hold one of the values under it
Optional(key, values) == {EmptyDict} \cup {[k \in {key} |-> v] : v \in values}

\* the dicts made of one dict of each set (the sets' keys differ)
Merged(A, B) == {a @@ b : a \in A, b \in B}

SeqsUpTo(S, n) == UNION {[1..k -> S] : k \in 0..n}

\* 2024-01-01T00:00:00Z, 2024-01-01T01:00:00+02:00 (an hour earlier than
\* the first), 2024-03-01T00:00:00+00:00
NewYearUTC == [date |-> <<2024, 1, 1>>, hour |-> 0, zone |-> "Z"]
NewYearEast == [date |-> <<2024, 1, 1>>, hour |-> 1, zone |-> "+02:00"]
FirstOfMarch == [date |-> <<2024, 3, 1>>, hour |-> 0, zone |-> "+00:00"]
NotADate == [text |-> "not-a-date"]
EmptyString == [text |-> ""]

SnapshotData(level) ==
    [skills |-> [overall |-> [level |-> level, experience |-> level]],
     computed |-> [ehp |-> [value |-> 5]]]

\* snapshots of which only createdAt is read, and snapshots with their data
DatedSnapshots ==
    Optional("createdAt", {None, NotADate, NewYearUTC, NewYearEast, FirstOfMarch})
Snapshots ==
    Merged(DatedSnapshots,
           Optional("data", {None, SnapshotData(499), SnapshotData(750)}))

\* snapshots of which only createdAt is read, 0, 6, 7, 29, 30, 60, 364, 365
\* and 547 days after the first, and one an hour before the first
CoverageSnapshots ==
    {[createdAt |-> c] :
        c \in {NewYearUTC, NewYearEast, FirstOfMarch}
               \cup {[date |-> d, hour |-> 0, zone |-> "Z"] :
                        d \in {<<2024, 1, 7>>, <<2024, 1, 8>>, <<2024, 1, 30>>,
                               <<2024, 1, 31>>, <<2024, 12, 30>>,
                               <<2024, 12, 31>>, <<2025, 7, 1>>}}}

\* snapshots of three total levels at two timestamps, of which the later
\* string denotes the earlier instant
RunSnapshots ==
    {[createdAt |-> c, data |-> SnapshotData(level)] :
        c \in {NewYearUTC, NewYearEast}, level \in {499, 600, 750}}

\* the snapshots argument: None, or a list of the snapshots given
SnapshotArgs(snaps) ==
    {None} \cup {[list |-> s] : s \in SeqsUpTo(snaps, MaxSnapshots)}

\* player payloads in which any of the fields is absent or null
MalformedPayloads ==
    LET ComputedValues ==
            {None} \cup Merged(Optional("ehp", {None, [value |-> 5]}),
                               Optional("ehb", {[value |-> 2]}))
        DataValues ==
            {None} \cup
            Merged(Merged(Optional("skills",
                              {None, [k \in {"attack", "overall"} |->
                                        [level |-> 1, experience |-> 1]]}),
                          Optional("bosses",
                              {None, [entries |->
                                        <<[name |-> "chambers_of_xeric",
                                           kills |-> 26]>>]})),
                   Optional("computed", ComputedValues))
        LatestValues == {None} \cup Optional("data", DataValues)
    IN  Merged(Merged(Optional("latestSnapshot", LatestValues),
                      Optional("type", {"group_ironman"})),
               Merged(Optional("updatedAt",
                               {None, NotADate, EmptyString, NewYearUTC}),
                      Optional("lastChangedAt", {NotADate, FirstOfMarch})))

\* a payload with every field in place
WholePayload(skills_data, bosses_data, ehp, ehb) ==
    [type |-> "regular",
     username |-> "zezima",
     id |-> 7,
     combatLevel |-> 126,
     updatedAt |-> FirstOfMarch,
     latestSnapshot |->
        [data |-> [skills |-> skills_data,
                   bosses |-> [entries |-> bosses_data],
                   computed |-> [ehp |-> [value |-> ehp], ehb |-> [value |-> ehb]]]]]

\* the first skills of six (the first four one of each category), each with
\* an experience, alone or beside an overall record and a key that is no
\* skill of SKILLS
RankedSkillsData ==
    LET names == <<"attack", "mining", "smithing", "agility", "strength",
                   "cooking">>
    IN  Merged(UNION {[{names[i] : i \in 1..n} ->
                          [level : {1}, experience : 0..MaxXP]] :
                      n \in 0..Len(names)},
               {EmptyDict,
                [k \in {"overall", "sailing"} |->
                    [level |-> 30, experience |-> 1]]})

\* six bosses in payload order, each untracked (-1), tracked without a kill,
\* or killed
RankedBossesData ==
    LET names == <<"zulrah", "nex", "chambers_of_xeric", "tzkal_zuk",
                   "kraken", "callisto">>
    IN  {[i \in DOMAIN names |-> [name |-> names[i], kills |-> k[i]]] :
            k \in [DOMAIN names -> -1..MaxKills]}

\* two raids and the first m filler bosses, the fillers with one kill each
\* or with sixty
CountedBossesData ==
    {<<[name |-> "chambers_of_xeric", kills |-> a],
       [name |-> "theatre_of_blood", kills |-> b]>>
        \o [i \in DOMAIN FillerBosses |->
              [name |-> FillerBosses[i], kills |-> IF i <= m THEN k ELSE -1]]
     : a \in {0, 25, 49, 50, 51}, b \in {0, 25, 49, 50, 51},
       m \in 0..(MaxFillers + 2), k \in {1, 60}}

-----------------------------------------------------------------------------
(* The calls of the application on the provider's JSON: one call of        *)
(* build_player_profile or of compute_journey_data, which returns or       *)
(* raises.                                                                 *)

InitCall == Init

\* the call returns the profile or raises
BuildOutcome(player_data, snapshots) ==
    LET r == build_player_profile_call(player_data, snapshots)
    IN  /\ request' = [op |-> "build_player_profile",
                       player_data |-> player_data,
                       snapshots |-> snapshots]
        /\ IF IsRaised(r)
           THEN /\ raised' = r.raised
                /\ origin' = "raised"
                /\ UNCHANGED profile
           ELSE /\ raised' = ""
                /\ origin' = "build_player_profile"
                /\ profile' = r

\* profile = build_player_profile(player_data, snapshots), on a malformed
\* payload, with a snapshot list, with ranked skills, with ranked or counted
\* bosses, or with computed ehp and ehb values
CallBuild ==
    LET basic == [k \in {"attack", "overall"} |-> [level |-> 1, experience |-> 1]]
        raid  == <<[name |-> "chambers_of_xeric", kills |-> 26]>>
    IN  /\ origin = "none"
        /\ \/ \E d \in MalformedPayloads,
                 s \in {None, [list |-> <<[createdAt |-> NotADate]>>]} :
                  BuildOutcome(d, s)
           \/ \E s \in SnapshotArgs(DatedSnapshots) :
                  BuildOutcome(WholePayload(basic, <<>>, 0, 2), s)
           \/ \E sd \in RankedSkillsData :
                  BuildOutcome(WholePayload(sd, <<>>, 5, 0), None)
           \/ \E bd \in RankedBossesData \cup CountedBossesData :
                  BuildOutcome(WholePayload(basic, bd, 0, 2), None)
           \/ \E ehp \in 0..MaxEHP, ehb \in 0..MaxEHB :
                  BuildOutcome(WholePayload(basic, raid, ehp, ehb), None)
        /\ UNCHANGED <<calls, other, journey, shown>>

\* the call returns the mapping or raises
JourneyOutcome(snapshots) ==
    LET r == compute_journey_data(snapshots)
    IN  /\ request' = [op |-> "compute_journey_data", snapshots |-> snapshots,
                       after |-> caller_snapshots(snapshots)]
        /\ IF IsRaised(r)
           THEN /\ raised' = r.raised
                /\ origin' = "raised"
                /\ UNCHANGED journey
           ELSE /\ raised' = ""
                /\ origin' = "compute_journey_data"
                /\ journey' = r

\* journey_data = compute_journey_data(snapshots), on snapshots with any
\* field absent or null
CallJourney ==
    /\ origin = "none"
    /\ \E s \in SnapshotArgs(Snapshots) : JourneyOutcome(s)
    /\ UNCHANGED <<calls, other, profile, shown>>

NextCall == CallBuild \/ CallJourney

SpecCall == InitCall /\ [][NextCall]_vars

-----------------------------------------------------------------------------
(* The skills page reads skill.virtual_level of a skill record.  The       *)
(* provider reports the level the experience gives, 99 at most.            *)

\* the level of an experience by xp_table
table_level(experience) ==
    CHOOSE level \in DOMAIN xp_table :
        /\ xp_table[level] <= experience
        /\ \A o \in DOMAIN xp_table : xp_table[o] <= experience => o <= level

\* experiences at, just below and just above the entries of xp_table and the
\* values of xp_for_level, and the 200 million the game stops at
LevelExperience ==
    ({xp_table[level] + k : level \in DOMAIN xp_table, k \in {-1, 0}}
     \cup {xp_for_level(level) + k : level \in 98..126, k \in {-1, 0, 1}}
     \cup {200000000}) \ {-1}

LevelSkills ==
    {SkillData("attack", table_level(xp), xp, -1, 0) : xp \in LevelExperience}

InitLevel ==
    /\ profile = NoProfile
    /\ other = NoProfile
    /\ origin = "none"
    /\ calls = 0
    /\ request \in {[op |-> "virtual_level", skill |-> s] : s \in LevelSkills}
    /\ raised = ""
    /\ journey = NoJourney
    /\ shown = 0

\* skill.virtual_level
ReadVirtualLevel ==
    /\ shown = 0
    /\ shown' = virtual_level(request.skill)
    /\ UNCHANGED <<profile, origin, calls, other, request, raised, journey>>

NextLevel == ReadVirtualLevel

SpecLevel == InitLevel /\ [][NextLevel]_vars

-----------------------------------------------------------------------------
(* The calls of compute_journey_data alone, also on histories: snapshots   *)
(* days to years apart, and runs of snapshots with total levels.           *)

InitJourney == Init

CallJourneyHistory ==
    /\ origin = "none"
    /\ \E s \in SnapshotArgs(CoverageSnapshots)
                \cup {[list |-> l] :
                         l \in [1..(MaxSnapshots + 2) -> RunSnapshots]} :
          JourneyOutcome(s)
    /\ UNCHANGED <<calls, other, profile, shown>>

NextJourney == CallJourney \/ CallJourneyHistory

SpecJourney == InitJourney /\ [][NextJourney]_vars

-----------------------------------------------------------------------------
(* A profile constructed and analysed by its caller, beside a call of      *)
(* compute_journey_data.                                                   *)

InitFrame == Init

NextFrame == Construct \/ Analyze \/ CallJourney

SpecFrame == InitFrame /\ [][NextFrame]_vars

-----------------------------------------------------------------------------
(* Vocabulary of the properties *)

\* analyze() has run on the profile at least once
Analyzed == origin = "build_player_profile" \/ (origin = "constructor" /\ calls > 0)

Computed(p) ==
    <<p.archetype, p.archetype_description, p.playstyle_scores,
      p.skill_category_xp, p.top_skills, p.top_bosses>>

ScoreNames ==
    {"skiller_vs_pvmer", "boss_diversity", "raid_focus", "skill_balance",
     "combat_focus"}

Score(name) == profile.playstyle_scores[name]

SkillCategoryNames == {"Combat", "Gathering", "Artisan", "Support"}
BossCategoryNames == {"Raids", "GWD", "Slayer", "Wilderness", "Other"}

\* the labels of the three bands, as the specification lists them
SkillerLabels ==
    {"Balanced Skiller", "Skiller"} \cup {c \o " Specialist" : c \in SkillCategoryNames}
PvMLabels ==
    {"Raider", "Boss Hunter", "PvMer"} \cup {c \o " Specialist" : c \in BossCategoryNames}
HybridLabels == {"Completionist", "Raiding Hybrid", "All-Rounder"}

\* the humanized account type of the model's account types, written out
Humanized(player_type) ==
    CASE player_type = "regular" -> "Regular"
      [] player_type = "group_ironman" -> "Group Ironman"
      [] player_type = "" -> ""

\* what the account type puts in front of the label
Prefix(player_type) ==
    IF player_type = "regular" \/ player_type = "" THEN ""
    ELSE Humanized(player_type) \o " "

HasLabel(p, label) == p.archetype = Prefix(p.player_type) \o label
HasLabelIn(p, labels) == \E l \in labels : HasLabel(p, l)

\* every branch of the decision tree: its label and its fixed description
Branches ==
    {[label |-> "Balanced Skiller",
      description |-> "Well-rounded skill training across all categories"],
     [label |-> "Combat Specialist",
      description |-> "Focused primarily on combat skills"],
     [label |-> "Gathering Specialist",
      description |-> "Focused primarily on gathering skills"],
     [label |-> "Artisan Specialist",
      description |-> "Focused primarily on artisan skills"],
     [label |-> "Support Specialist",
      description |-> "Focused primarily on support skills"],
     [label |-> "Skiller", description |-> "Focuses on skill training over combat"],
     [label |-> "Raider",
      description |-> "Heavy focus on raid content (CoX, ToB, ToA)"],
     [label |-> "Boss Hunter",
      description |-> "Experienced across many different bosses"],
     [label |-> "Raids Specialist", description |-> "Primary focus on raids content"],
     [label |-> "GWD Specialist", description |-> "Primary focus on gwd content"],
     [label |-> "Slayer Specialist",
      description |-> "Primary focus on slayer content"],
     [label |-> "Wilderness Specialist",
      description |-> "Primary focus on wilderness content"],
     [label |-> "Other Specialist", description |-> "Primary focus on other content"],
     [label |-> "PvMer", description |-> "Focuses on boss content and combat"],
     [label |-> "Completionist",
      description |-> "Balanced progression across skilling and PvM"],
     [label |-> "Raiding Hybrid",
      description |-> "Mixes raid content with skill training"],
     [label |-> "All-Rounder",
      description |-> "Enjoys varied content without strong specialization"]}

\* the band skiller_vs_pvmer selects
Band ==
    IF GT(Score("skiller_vs_pvmer"), 80) THEN "skiller"
    ELSE IF LT(Score("skiller_vs_pvmer"), 30) THEN "pvm"
    ELSE "hybrid"

-----------------------------------------------------------------------------
(* C1: analyze() is idempotent: a call of analyze() on a profile that has  *)
(* been analyzed before leaves playstyle_scores, skill_category_xp,        *)
(* top_skills, top_bosses, archetype and archetype_description as they     *)
(* were, for every account type (the prefix is not applied twice).         *)
C1_AnalyzeIdempotent ==
    [][(Analyzed /\ calls' = calls + 1) => Computed(profile') = Computed(profile)]_vars

\* a prefixed profile that has been analyzed again
C1_Witness ==
    /\ origin = "build_player_profile"
    /\ calls = 2
    /\ profile.player_type = "group_ironman"
    /\ profile.archetype = "Group Ironman Boss Hunter"

(* C2: after analyze() each of the five playstyle scores lies in [0,100],  *)
(* for all non-negative EHP, EHB, kill counts, experience and total        *)
(* experience.                                                             *)
C2_ScoresInRange ==
    Analyzed => \A name \in ScoreNames : ~LT(Score(name), 0) /\ ~GT(Score(name), 100)

(* C3: skiller_vs_pvmer alone selects the band: above 80 the skiller       *)
(* labels, otherwise below 30 the PvM labels, otherwise the hybrid labels; *)
(* scores of exactly 30 and exactly 80 are hybrid.                         *)
C3_BandBySkillerScore ==
    Analyzed =>
        LET s == Score("skiller_vs_pvmer")
        IN  /\ GT(s, 80) => HasLabelIn(profile, SkillerLabels)
            /\ (~GT(s, 80) /\ LT(s, 30)) => HasLabelIn(profile, PvMLabels)
            /\ (~GT(s, 80) /\ ~LT(s, 30)) => HasLabelIn(profile, HybridLabels)
            /\ (EQ(s, 30) \/ EQ(s, 80)) => HasLabelIn(profile, HybridLabels)
            /\ Cardinality({labels \in {SkillerLabels, PvMLabels, HybridLabels} :
                               HasLabelIn(profile, labels)}) = 1

\* a profile whose score is exactly 80, in the hybrid band
C3_Witness ==
    /\ Analyzed
    /\ EQ(Score("skiller_vs_pvmer"), 80)
    /\ HasLabelIn(profile, HybridLabels)

\* the category that lists the boss, "" when none does
ListedCategory(boss) ==
    IF \E i \in DOMAIN BOSS_CATEGORIES : boss \in Range(BOSS_CATEGORIES[i][2])
    THEN BOSS_CATEGORIES[CHOOSE i \in DOMAIN BOSS_CATEGORIES :
                            boss \in Range(BOSS_CATEGORIES[i][2])][1]
    ELSE ""

(* C4: in the PvM band the rules have a fixed priority: raid_focus > 70    *)
(* gives "Raider" even when boss_diversity > 70 too; otherwise             *)
(* boss_diversity > 70 gives "Boss Hunter"; otherwise a most-killed boss   *)
(* listed in a category gives "<category> Specialist"; otherwise (no boss  *)
(* with kills > 0, or a top boss of no category) "PvMer".  Scores of       *)
(* exactly 70 do not pass the guards.                                      *)
C4_PvMPriority ==
    (Analyzed /\ Band = "pvm") =>
        LET raid      == Score("raid_focus")
            diversity == Score("boss_diversity")
            killed    == {i \in DOMAIN profile.bosses : profile.bosses[i].kills > 0}
        IN  /\ (profile.top_bosses = <<>>) <=> (killed = {})
            /\ profile.top_bosses # <<>> =>
                  \A i \in killed : profile.bosses[i].kills <= profile.top_bosses[1][2]
            /\ IF GT(raid, 70) THEN HasLabel(profile, "Raider")
               ELSE IF GT(diversity, 70) THEN HasLabel(profile, "Boss Hunter")
               ELSE IF killed # {} /\ ListedCategory(profile.top_bosses[1][1]) # ""
               THEN HasLabel(profile,
                             ListedCategory(profile.top_bosses[1][1]) \o " Specialist")
               ELSE HasLabel(profile, "PvMer")

\* both guards pass, and the raid rule wins
C4_Witness ==
    /\ Analyzed
    /\ Band = "pvm"
    /\ GT(Score("raid_focus"), 70)
    /\ GT(Score("boss_diversity"), 70)
    /\ HasLabel(profile, "Raider")

C6_HybridBranch ==
    (Analyzed /\ Band = "hybrid") =>
        LET raid    == Score("raid_focus")
            balance == Score("skill_balance")
        IN  /\ (GT(raid, 50) /\ GT(balance, 50)) => HasLabel(profile, "Completionist")
            /\ (GT(raid, 50) /\ ~GT(balance, 50)) => HasLabel(profile, "Raiding Hybrid")
            /\ ~GT(raid, 50) => HasLabel(profile, "All-Rounder")

\* balanced skills without the raid kills: not a Completionist
C6_Witness ==
    /\ Analyzed
    /\ Band = "hybrid"
    /\ ~GT(Score("raid_focus"), 50)
    /\ GT(Score("skill_balance"), 50)
    /\ GT(Score("boss_diversity"), 0)
    /\ HasLabel(profile, "All-Rounder")

(* C7: for a "regular" profile with empty skill and boss maps analyze()    *)
(* leaves boss_diversity 0, raid_focus 0, skill_balance 50 and             *)
(* combat_focus 50, and the archetype is the default of the band:          *)
(* "Skiller", "PvMer" or "All-Rounder".                                    *)
C7_EmptyMapsDefaults ==
    (/\ Analyzed
     /\ profile.skills = <<>>
     /\ profile.bosses = <<>>
     /\ profile.player_type = "regular") =>
        /\ EQ(Score("boss_diversity"), 0)
        /\ EQ(Score("raid_focus"), 0)
        /\ EQ(Score("skill_balance"), 50)
        /\ EQ(Score("combat_focus"), 50)
        /\ profile.archetype =
              (CASE Band = "skiller" -> "Skiller"
                 [] Band = "pvm" -> "PvMer"
                 [] Band = "hybrid" -> "All-Rounder")

\* the most-killed boss of a profile, "" when no boss has kills
TopBoss(p) == IF p.top_bosses = <<>> THEN "" ELSE p.top_bosses[1][1]

\* the two profiles agree on the four scores and on the top-killed boss
PairAgrees ==
    /\ origin = "pair"
    /\ \A name \in ScoreNames \ {"combat_focus"} :
          profile.playstyle_scores[name] = other.playstyle_scores[name]
    /\ TopBoss(profile) = TopBoss(other)

\* the first of the categories with the highest XP total
DominantCategory(p) ==
    LET xp == p.skill_category_xp
    IN  xp[CHOOSE i \in DOMAIN xp :
              /\ \A j \in DOMAIN xp : xp[j][2] <= xp[i][2]
              /\ \A j \in DOMAIN xp : j < i => xp[j][2] < xp[i][2]][1]

(* C8, as stated: two profiles that agree on skiller_vs_pvmer,             *)
(* skill_balance, raid_focus, boss_diversity and the top-killed boss get   *)
(* the same archetype string.                                              *)
C8_SameInputsSameArchetype ==
    PairAgrees => profile.archetype = other.archetype

(* C8, amended: two profiles that agree on the four scores, the top-killed *)
(* boss, the account type and the dominant skill category get the same     *)
(* archetype string.                                                       *)
C8_Amended ==
    (/\ PairAgrees
     /\ profile.player_type = other.player_type
     /\ DominantCategory(profile) = DominantCategory(other)) =>
        profile.archetype = other.archetype

\* two profiles that differ in EHP and in the order of their bosses, and agree
\* on what the archetype is decided by
C8_Witness ==
    /\ PairAgrees
    /\ profile.player_type = other.player_type
    /\ DominantCategory(profile) = DominantCategory(other)
    /\ profile.ehb # other.ehb
    /\ profile.bosses # other.bosses
    /\ TopBoss(profile) = "zulrah"
    /\ profile.archetype = "Group Ironman Other Specialist"
    /\ other.archetype = "Group Ironman Other Specialist"

(* C9, as stated: a player_type other than "regular" puts the humanized    *)
(* account type and one space in front of the branch label; "regular"      *)
(* leaves the bare label; the description is the branch's in both cases.   *)
C9_PrefixUnlessRegular ==
    Analyzed =>
        \E b \in Branches :
            /\ profile.archetype_description = b.description
            /\ profile.archetype =
                  IF profile.player_type # "regular"
                  THEN Humanized(profile.player_type) \o " " \o b.label
                  ELSE b.label

(* C9, amended: a non-empty player_type other than "regular" puts the      *)
(* humanized account type and one space in front of the branch label, once;*)
(* "regular" and the empty player_type leave the bare label; the           *)
(* description is the branch's in every case.                              *)
C9_Amended ==
    Analyzed =>
        \E b \in Branches :
            /\ profile.archetype_description = b.description
            /\ profile.archetype =
                  IF profile.player_type # "regular" /\ profile.player_type # ""
                  THEN Humanized(profile.player_type) \o " " \o b.label
                  ELSE b.label

\* an account type with an underscore in front of a label
C9_Witness ==
    /\ Analyzed
    /\ profile.player_type = "group_ironman"
    /\ profile.archetype = "Group Ironman Raider"
    /\ profile.archetype_description = "Heavy focus on raid content (CoX, ToB, ToA)"

\* the computed fields as the constructor leaves them
ComputedDefaults == <<"", "", <<>>, <<>>, <<>>, <<>>>>

\* the computed fields after an analysis: a label, a description, the five
\* scores and the four category totals
Populated ==
    /\ profile.archetype # ""
    /\ profile.archetype_description # ""
    /\ DOMAIN profile.playstyle_scores = ScoreNames
    /\ {profile.skill_category_xp[i][1] : i \in DOMAIN profile.skill_category_xp}
          = SkillCategoryNames

(* C10, as stated: the profile build_player_profile returns has its        *)
(* computed fields at the construction defaults until the caller calls     *)
(* analyze().                                                              *)
C10_BuildReturnsUnanalyzed ==
    (origin = "build_player_profile" /\ calls = 0) =>
        Computed(profile) = ComputedDefaults

(* C10, amended: build_player_profile runs analyze() itself, so the        *)
(* profile it returns has its computed fields populated; a profile from    *)
(* the constructor has them at the construction defaults until analyze()   *)
(* is called on it, and populated from then on.                            *)
C10_Amended ==
    /\ origin = "build_player_profile" => Populated
    /\ (origin = "constructor" /\ calls = 0) => Computed(profile) = ComputedDefaults
    /\ (origin = "constructor" /\ calls > 0) => Populated

\* the profile as build_player_profile returned it, with top lists filled
C10_Witness ==
    /\ origin = "build_player_profile"
    /\ calls = 0
    /\ Populated
    /\ profile.top_skills # <<>>
    /\ profile.top_bosses # <<>>

-----------------------------------------------------------------------------
(* Vocabulary of the properties of a call *)

Built == request.op = "build_player_profile" /\ origin = "build_player_profile"

\* the snapshots handed to the call, none when None was handed
SuppliedSnapshots ==
    IF request.snapshots = None THEN <<>> ELSE request.snapshots.list

\* the instants of the createdAt strings that denote a timestamp
ParsedInstants ==
    {DaysFromCivil(s.createdAt.date) * 24 + s.createdAt.hour
        - ZoneHours(s.createdAt.zone) :
     s \in {t \in Range(SuppliedSnapshots) :
               "createdAt" \in DOMAIN t /\ "date" \in DOMAIN t.createdAt}}

\* the bosses mapping of the payload, in payload order
RawBosses ==
    LET d == request.player_data
    IN  IF "latestSnapshot" \in DOMAIN d /\ d.latestSnapshot # None
           /\ "data" \in DOMAIN d.latestSnapshot /\ d.latestSnapshot.data # None
           /\ "bosses" \in DOMAIN d.latestSnapshot.data
           /\ d.latestSnapshot.data.bosses # None
        THEN d.latestSnapshot.data.bosses.entries
        ELSE <<>>

Minimum(a, b) == IF a < b THEN a ELSE b

(* C11: build_player_profile and compute_journey_data never raise for     *)
(* malformed input: whatever field of the payload or of a snapshot is      *)
(* absent, null or an unparsable timestamp, the call returns.              *)
C11_NeverRaises == raised = ""

(* C12: build_player_profile sets snapshot_count to the length of the      *)
(* snapshot list (0 if none) and first_snapshot to the earliest of the     *)
(* createdAt timestamps that parse, also when other createdAt values of    *)
(* the list do not parse; first_snapshot is None when none parses.         *)
C12_FirstSnapshotEarliestParsed ==
    Built =>
        /\ profile.snapshot_count = Len(SuppliedSnapshots)
        /\ IF ParsedInstants = {} THEN profile.first_snapshot = None
           ELSE /\ profile.first_snapshot # None
                /\ \A t \in ParsedInstants : Instant(profile.first_snapshot) <= t
                /\ Instant(profile.first_snapshot) \in ParsedInstants

(* C13: a boss with raw kills -1 is absent from profile.bosses, so every   *)
(* record of profile.bosses has kills >= 0; a boss with raw kills 0 is in  *)
(* profile.bosses with kills 0, is not in top_bosses and is not counted by *)
(* boss_diversity (which counts the bosses with kills > 0 only).           *)
C13_UntrackedBossesDropped ==
    Built =>
        LET raw == RawBosses
            killed == {i \in DOMAIN raw : raw[i].kills > 0}
        IN  /\ \A i \in DOMAIN raw :
                  raw[i].kills = -1 => ~HasKey(profile.bosses, raw[i].name)
            /\ \A i \in DOMAIN profile.bosses : profile.bosses[i].kills >= 0
            /\ \A i \in DOMAIN raw :
                  raw[i].kills = 0 =>
                     /\ HasKey(profile.bosses, raw[i].name)
                     /\ Lookup(profile.bosses, raw[i].name).kills = 0
                     /\ \A j \in DOMAIN profile.top_bosses :
                           profile.top_bosses[j][1] # raw[i].name
            /\ Score("boss_diversity")
                  = Rat(Minimum(100, 10 * Cardinality(killed)), 1)

\* a payload with an untracked boss, a boss without a kill and a killed one
C13_Witness ==
    /\ Built
    /\ \E i \in DOMAIN RawBosses : RawBosses[i].kills = -1
    /\ \E i \in DOMAIN RawBosses : RawBosses[i].kills = 0
    /\ Len(RawBosses) = 6
    /\ Len(profile.bosses) = 2
    /\ Len(profile.top_bosses) = 1
    /\ EQ(Score("boss_diversity"), 10)

\* the position of a name in a dict
Position(d, name) == CHOOSE i \in DOMAIN d : d[i].name = name

\* a top list is in descending order of its values, equal values in the
\* insertion order of the dict
RankedByValue(top, d) ==
    \A j, k \in DOMAIN top :
        j < k => \/ top[j][2] > top[k][2]
                 \/ /\ top[j][2] = top[k][2]
                    /\ Position(d, top[j][1]) < Position(d, top[k][1])

(* C14: after analyze() top_skills has at most 5 entries, never holds      *)
(* "overall", holds min(5, number of non-overall skills) entries, each a   *)
(* skill with its experience, in descending order of experience with       *)
(* equal experience in the insertion order of the skills map; a skill left *)
(* out has no more experience than the last entry.                         *)
C14_TopSkills ==
    Built =>
        LET skills == profile.skills
            top    == profile.top_skills
            others == {i \in DOMAIN skills : skills[i].name # "overall"}
        IN  /\ Len(top) <= 5
            /\ \A j \in DOMAIN top : top[j][1] # "overall"
            /\ Len(top) = Minimum(5, Cardinality(others))
            /\ \A j \in DOMAIN top :
                  /\ HasKey(skills, top[j][1])
                  /\ top[j][2] = Lookup(skills, top[j][1]).experience
            /\ RankedByValue(top, skills)
            /\ \A i \in others :
                  (\A j \in DOMAIN top : top[j][1] # skills[i].name)
                      => skills[i].experience <= top[Len(top)][2]

\* six skills beside overall, two of the five listed level with each other,
\* the one left out level with the last entry
C14_Witness ==
    /\ Built
    /\ Len(profile.skills) = 7
    /\ Len(profile.top_skills) = 5
    /\ profile.top_skills[1][2] > profile.top_skills[2][2]
    /\ profile.top_skills[2][2] = profile.top_skills[3][2]
    /\ profile.top_skills[3][2] > profile.top_skills[5][2]
    /\ \E i \in DOMAIN profile.skills :
          /\ profile.skills[i].name # "overall"
          /\ \A j \in 1..5 : profile.top_skills[j][1] # profile.skills[i].name
          /\ profile.skills[i].experience = profile.top_skills[5][2]

(* C15: after analyze() top_bosses has at most 5 entries, only bosses with *)
(* kills > 0, in descending order of kills with equal kills in the         *)
(* insertion order of the bosses map; a killed boss left out has no more   *)
(* kills than the last entry; and the first entry is the top-killed boss   *)
(* of the archetype decision: in the PvM band, when neither raid_focus nor *)
(* boss_diversity passes 70, the label is that boss's category             *)
(* ("PvMer" when no category lists it, or when top_bosses is empty).       *)
C15_TopBosses ==
    Built =>
        LET bosses == profile.bosses
            top    == profile.top_bosses
            killed == {i \in DOMAIN bosses : bosses[i].kills > 0}
        IN  /\ Len(top) = Minimum(5, Cardinality(killed))
            /\ \A j \in DOMAIN top :
                  /\ HasKey(bosses, top[j][1])
                  /\ top[j][2] = Lookup(bosses, top[j][1]).kills
                  /\ top[j][2] > 0
            /\ RankedByValue(top, bosses)
            /\ \A i \in killed :
                  (\A j \in DOMAIN top : top[j][1] # bosses[i].name)
                      => bosses[i].kills <= top[Len(top)][2]
            /\ (Band = "pvm" /\ ~GT(Score("raid_focus"), 70)
                  /\ ~GT(Score("boss_diversity"), 70)) =>
                  IF top # <<>> /\ ListedCategory(top[1][1]) # ""
                  THEN HasLabel(profile, ListedCategory(top[1][1]) \o " Specialist")
                  ELSE HasLabel(profile, "PvMer")

\* six killed bosses, the most killed not the first of the payload and
\* level with a later one: its category labels the profile
C15_Witness ==
    /\ Built
    /\ Len(RawBosses) = 6
    /\ Len(profile.top_bosses) = 5
    /\ Cardinality({i \in DOMAIN profile.bosses : profile.bosses[i].kills > 0}) = 6
    /\ profile.top_bosses[1] = <<"nex", 2>>
    /\ profile.top_bosses[2] = <<"kraken", 2>>
    /\ profile.archetype = "GWD Specialist"

\* v <= w, for two scores without a root part
RatLeq(v, w) == v.n * w.d <= w.n * v.d

(* C16: skiller_vs_pvmer with zero EHB: EHP > 0 and EHB = 0 give exactly   *)
(* 100, EHP = 0 and EHB = 0 give exactly 50, and EHP = 0 with EHB > 0      *)
(* gives 0.                                                                *)
C16_ZeroEHB ==
    Built =>
        LET s == Score("skiller_vs_pvmer")
        IN  /\ (profile.ehp > 0 /\ profile.ehb = 0) => s = Rat(100, 1)
            /\ (profile.ehp = 0 /\ profile.ehb = 0) => s = Rat(50, 1)
            /\ (profile.ehp = 0 /\ profile.ehb > 0) => s = Rat(0, 1)

\* a payload with EHP and without EHB
C16_Witness ==
    /\ Built
    /\ profile.ehp = 12
    /\ profile.ehb = 0
    /\ EQ(Score("skiller_vs_pvmer"), 100)

(* C17: for EHB > 0 and ratio = EHP/EHB, ratio >= 3 gives 100, ratio <=    *)
(* 0.5 gives 0, and a ratio between gives (ratio - 0.5) / 2.5 * 100, which *)
(* is the value at the two cutoffs as well (continuity); the score does    *)
(* not decrease when the ratio grows.                                      *)
C17_RatioInterpolation ==
    (Built /\ profile.ehb > 0) =>
        LET ehp == profile.ehp
            ehb == profile.ehb
            s   == Score("skiller_vs_pvmer")
        IN  /\ ehp >= 3 * ehb => s = Rat(100, 1)
            /\ 2 * ehp <= ehb => s = Rat(0, 1)
            /\ (2 * ehp >= ehb /\ ehp <= 3 * ehb) =>
                  s = Rat(40 * ehp - 20 * ehb, ehb)
            /\ \A e \in 0..MaxEHP, b \in 1..MaxEHB :
                  e * ehb <= ehp * b =>
                     RatLeq(skiller_score([ehp |-> e, ehb |-> b]), s)

\* a ratio of exactly 3
C17_Witness ==
    /\ Built
    /\ profile.ehp = 9
    /\ profile.ehb = 3
    /\ EQ(Score("skiller_vs_pvmer"), 100)

(* C18: skill_balance is exactly 100 when the four category totals are     *)
(* equal and positive, exactly 50 when the four are 0, and 0 when the      *)
(* coefficient of variation exceeds 1 (variance above the squared mean),   *)
(* as when one category holds all the experience.                          *)
C18_SkillBalance ==
    Built =>
        LET xp == [i \in DOMAIN profile.skill_category_xp |->
                      profile.skill_category_xp[i][2]]
            S  == SumSeq(xp)
            Q  == SumSeq([i \in DOMAIN xp |-> xp[i] * xp[i]])
            s  == Score("skill_balance")
        IN  /\ Len(xp) = 4
            /\ (xp[1] > 0 /\ \A i \in DOMAIN xp : xp[i] = xp[1]) => EQ(s, 100)
            /\ (\A i \in DOMAIN xp : xp[i] = 0) => EQ(s, 50)
            /\ (S > 0 /\ 2 * Q > S * S) => EQ(s, 0)
            /\ (\E i \in DOMAIN xp :
                   xp[i] > 0 /\ \A j \in DOMAIN xp \ {i} : xp[j] = 0) => EQ(s, 0)

\* six skills that give each category a total of 2
C18_Witness ==
    /\ Built
    /\ Len(profile.skills) >= 6
    /\ \A i \in DOMAIN profile.skill_category_xp :
          profile.skill_category_xp[i][2] = 2
    /\ EQ(Score("skill_balance"), 100)

(* C19: boss_diversity is min(100, n/10*100) for the n bosses of the       *)
(* profile with kills > 0, raid_focus is min(100, k/50*100) for k the sum  *)
(* of the kills of the profile's bosses that the Raids category lists; the *)
(* bosses outside Raids do not change raid_focus; the scores are 100       *)
(* exactly from n >= 10 and from k >= 50.                                  *)
C19_DiversityAndRaidFocus ==
    Built =>
        LET bosses == profile.bosses
            raids  == {i \in DOMAIN bosses : ListedCategory(bosses[i].name) = "Raids"}
            n == Cardinality({i \in DOMAIN bosses : bosses[i].kills > 0})
            k == SumSeq([i \in DOMAIN bosses |->
                            IF i \in raids THEN bosses[i].kills ELSE 0])
        IN  /\ Score("boss_diversity") = Rat(Minimum(1000, n * 100), 10)
            /\ Score("raid_focus") = Rat(Minimum(5000, k * 100), 50)
            /\ EQ(Score("boss_diversity"), 100) <=> n >= 10
            /\ EQ(Score("raid_focus"), 100) <=> k >= 50
            /\ Score("raid_focus") = raid_score([bosses |-> Select(bosses, raids)])

\* ten killed bosses, eight of them outside Raids with sixty kills each,
\* and fifty raid kills over the two raids
C19_Witness ==
    /\ Built
    /\ Cardinality({i \in DOMAIN profile.bosses : profile.bosses[i].kills > 0}) = 10
    /\ Lookup(profile.bosses, "chambers_of_xeric").kills = 25
    /\ Lookup(profile.bosses, "theatre_of_blood").kills = 25
    /\ Lookup(profile.bosses, "zulrah").kills = 60
    /\ EQ(Score("boss_diversity"), 100)
    /\ EQ(Score("raid_focus"), 100)

\* the categories that list the skill
CategoriesOf(skill) ==
    {i \in DOMAIN SKILL_CATEGORIES : skill \in Range(SKILL_CATEGORIES[i][2])}

\* the four categories list names of SKILLS only, none of them in two
\* categories, and count the experience of the skills given once each
CategoriesDisjoint(skills) ==
    /\ Cardinality(Range(SKILLS)) = 24
    /\ [i \in DOMAIN SKILL_CATEGORIES |-> SKILL_CATEGORIES[i][1]]
          = <<"Combat", "Gathering", "Artisan", "Support">>
    /\ \A i \in DOMAIN SKILL_CATEGORIES :
          \A name \in Range(SKILL_CATEGORIES[i][2]) :
              name \in Range(SKILLS) /\ CategoriesOf(name) = {i}
    /\ \A name \in skills : Cardinality(CategoriesOf(name)) = 1
    /\ Built =>
          SumSeq([i \in DOMAIN profile.skill_category_xp |->
                     profile.skill_category_xp[i][2]])
          = SumSeq([i \in DOMAIN profile.skills |->
                       IF profile.skills[i].name \in skills
                       THEN profile.skills[i].experience ELSE 0])

(* C20: the skill-to-category mapping partitions the 24 skills of SKILLS   *)
(* into Combat, Gathering, Artisan and Support: every skill of SKILLS is   *)
(* in exactly one category, and no category lists a name outside SKILLS or *)
(* a name of another category.                                             *)
C20_CategoriesPartitionSkills == CategoriesDisjoint(Range(SKILLS))

(* C20, amended: the mapping partitions the 23 skills of SKILLS other than *)
(* the aggregate "overall", which no category lists; the category totals   *)
(* of a profile count each of its skills but overall once.                 *)
C20_Amended ==
    /\ CategoriesDisjoint(Range(SKILLS) \ {"overall"})
    /\ CategoriesOf("overall") = {}

\* a profile with an overall record and a skill of each category
C20_Witness ==
    /\ Built
    /\ HasKey(profile.skills, "overall")
    /\ Lookup(profile.skills, "overall").experience = 1
    /\ Len(profile.skills) = 7
    /\ profile.skill_category_xp
          = <<<<"Combat", 3>>, <<"Gathering", 2>>, <<"Artisan", 1>>, <<"Support", 2>>>>

-----------------------------------------------------------------------------
(* Properties of the parsed skills *)

\* the skills mapping of the payload
RawSkills ==
    LET d == request.player_data
    IN  IF "latestSnapshot" \in DOMAIN d /\ d.latestSnapshot # None
           /\ "data" \in DOMAIN d.latestSnapshot /\ d.latestSnapshot.data # None
           /\ "skills" \in DOMAIN d.latestSnapshot.data
           /\ d.latestSnapshot.data.skills # None
        THEN d.latestSnapshot.data.skills
        ELSE EmptyDict

(* C21: profile.skills holds exactly the names of SKILLS that are keys of  *)
(* the payload's skills mapping, each with the payload's level and         *)
(* experience: a skill of SKILLS absent from the payload is absent (not    *)
(* zero-filled), one present with experience 0 is present with 0, a key    *)
(* outside SKILLS is ignored; total_level and total_experience are those   *)
(* of "overall" when the payload has it, else 1 and 0.                     *)
C21_SkillsParsed ==
    Built =>
        LET raw == RawSkills
            names == {profile.skills[i].name : i \in DOMAIN profile.skills}
        IN  /\ names = Range(SKILLS) \cap DOMAIN raw
            /\ Cardinality(names) = Len(profile.skills)
            /\ \A i \in DOMAIN profile.skills :
                  LET s == profile.skills[i]
                  IN  /\ s.level = raw[s.name].level
                      /\ s.experience = raw[s.name].experience
            /\ IF "overall" \in DOMAIN raw
               THEN /\ profile.total_level = raw.overall.level
                    /\ profile.total_experience = raw.overall.experience
               ELSE /\ profile.total_level = 1
                    /\ profile.total_experience = 0

\* a payload with a key outside SKILLS, an overall record of level 30, a
\* skill of experience 0 and no defence skill
C21_Witness ==
    /\ Built
    /\ DOMAIN RawSkills = {"sailing", "overall", "attack"}
    /\ RawSkills.attack.experience = 0
    /\ Len(profile.skills) = 2
    /\ ~HasKey(profile.skills, "sailing")
    /\ ~HasKey(profile.skills, "defence")
    /\ Lookup(profile.skills, "attack").experience = 0
    /\ profile.total_level = 30
    /\ profile.total_experience = 1

-----------------------------------------------------------------------------
(* Properties of the journey *)

Journeyed ==
    request.op = "compute_journey_data" /\ origin = "compute_journey_data"

\* timeline[i] reaches the threshold that timeline[i-1] was below
Crosses(timeline, i, threshold) ==
    /\ timeline[i - 1].total_level < threshold
    /\ threshold <= timeline[i].total_level

(* C22: compute_journey_data emits exactly one milestone for every pair of *)
(* consecutive timeline points (prev, curr) and every threshold t of       *)
(* 500, 750, 1000, 1250, 1500, 1750, 2000, 2277 with                       *)
(* prev.total_level < t <= curr.total_level, dated at curr; several        *)
(* thresholds crossed in one pair each get a milestone of that date; there *)
(* is none for a threshold the first point has reached already, nor for a  *)
(* pair that crosses no threshold.                                         *)
C22_MilestonePerCrossing ==
    Journeyed =>
        LET tl == journey.timeline
            ms == journey.milestones
            dates == {tl[i].date : i \in DOMAIN tl}
                        \cup {ms[k].date : k \in DOMAIN ms}
            values == Range(level_thresholds)
                         \cup {ms[k].value : k \in DOMAIN ms}
        IN  /\ \A d \in dates, t \in values :
                  Cardinality({k \in DOMAIN ms :
                                  ms[k].date = d /\ ms[k].value = t})
                  = Cardinality({i \in 2..Len(tl) :
                                    /\ tl[i].date = d
                                    /\ t \in Range(level_thresholds)
                                    /\ Crosses(tl, i, t)})
            /\ \A k \in DOMAIN ms :
                  /\ ms[k].type = "total_level"
                  /\ ms[k].description
                        = "Reached " \o ToString(ms[k].value) \o " total level"

\* total levels 750, 499, 750, 750: nothing for the first point, nothing for
\* the drop, the thresholds 500 and 750 in the third pair, nothing at the end
C22_Witness ==
    /\ Journeyed
    /\ Len(journey.timeline) = 4
    /\ journey.timeline[1].total_level = 750
    /\ journey.timeline[2].total_level = 499
    /\ journey.timeline[3].total_level = 750
    /\ journey.timeline[4].total_level = 750
    /\ Len(journey.milestones) = 2
    /\ journey.milestones[1].value = 500
    /\ journey.milestones[2].value = 750
    /\ journey.milestones[1].date = journey.timeline[3].date
    /\ journey.milestones[2].date = journey.timeline[3].date

(* C23: the timeline of compute_journey_data is ordered strictly ascending *)
(* by parsed timestamp, for every list of snapshots with parseable         *)
(* createdAt strings in any order, strings of different form ("Z" or an    *)
(* explicit offset) and snapshots of equal timestamps included.            *)
C23_TimelineAscending ==
    Journeyed =>
        \A i \in DOMAIN journey.timeline, j \in DOMAIN journey.timeline :
            i < j => Instant(journey.timeline[i].date)
                        < Instant(journey.timeline[j].date)

\* a snapshot whose createdAt key is absent, or a string that denotes no
\* timestamp
Undated(snap) ==
    "createdAt" \notin DOMAIN snap \/ "text" \in DOMAIN snap.createdAt

\* a snapshot whose createdAt string denotes a timestamp
Dated(snap) == "createdAt" \in DOMAIN snap /\ "date" \in DOMAIN snap.createdAt

TimelineHours ==
    LET instants == {Instant(journey.timeline[i].date) :
                        i \in DOMAIN journey.timeline}
        first == CHOOSE a \in instants : \A b \in instants : a <= b
        last  == CHOOSE a \in instants : \A b \in instants : b <= a
    IN  last - first

(* C25: data_coverage is chosen by the whole-day span d from the earliest  *)
(* to the latest timeline point: d < 7 the days with "(limited history)",  *)
(* 7 <= d < 30 the days, 30 <= d < 365 the months d // 30, d >= 365 the    *)
(* years d / 365 to one decimal; exactly one form applies, 7, 30 and 365   *)
(* fall in the upper band, and the count shown is the number of timeline   *)
(* points.                                                                 *)
C25_CoverageBands ==
    (Journeyed /\ journey.timeline # <<>>) =>
        LET d == TimelineHours \div 24
            count == ToString(Len(journey.timeline)) \o " snapshots over "
            tenths == CHOOSE k \in 0..(d + 1) :
                         /\ 2 * (10 * d - 365 * k) <= 365
                         /\ 2 * (365 * k - 10 * d) < 365
            text == journey.data_coverage
        IN  /\ d < 7 =>
                 text = count \o ToString(d) \o " days (limited history)"
            /\ (7 <= d /\ d < 30) => text = count \o ToString(d) \o " days"
            /\ (30 <= d /\ d < 365) =>
                 text = count \o "~" \o ToString(d \div 30) \o " months"
            /\ d >= 365 =>
                 text = count \o "~" \o ToString(tenths \div 10) \o "."
                           \o ToString(tenths % 10) \o " years"

\* a span of 7 days and an hour
C25_Witness ==
    /\ Journeyed
    /\ Len(journey.timeline) = 2
    /\ TimelineHours = 7 * 24 + 1
    /\ journey.data_coverage = "2 snapshots over 7 days"

(* C30: when total_level is non-decreasing along the timeline, each        *)
(* threshold appears in at most one milestone and the milestones are in    *)
(* timeline order: their dates are non-decreasing and the thresholds       *)
(* ascend among milestones of one date; a threshold appears in more than   *)
(* one milestone only if total_level drops below it and reaches it again.  *)
C30_MilestonesOrdered ==
    Journeyed =>
        LET tl == journey.timeline
            ms == journey.milestones
        IN  /\ (\A i \in 2..Len(tl) :
                    tl[i - 1].total_level <= tl[i].total_level)
               => \A k \in DOMAIN ms, l \in DOMAIN ms :
                     k < l =>
                        /\ ms[k].value # ms[l].value
                        /\ Instant(ms[k].date) <= Instant(ms[l].date)
                        /\ ms[k].date = ms[l].date => ms[k].value < ms[l].value
            /\ \A k \in DOMAIN ms, l \in DOMAIN ms :
                  (k < l /\ ms[k].value = ms[l].value) =>
                     \E a \in DOMAIN tl, b \in DOMAIN tl, c \in DOMAIN tl :
                        /\ a < b /\ b < c
                        /\ tl[a].total_level >= ms[k].value
                        /\ tl[b].total_level < ms[k].value
                        /\ tl[c].total_level >= ms[k].value

-----------------------------------------------------------------------------
(* Properties of the virtual level *)

LevelRead == request.op = "virtual_level" /\ shown # 0

\* the experience a level takes: a quarter of the terms of the levels below
\* it, which is the entry of xp_table for the levels 1..99
Requirement(level) == sum_terms(1, level - 1) \div 4

(* C26: for an experience of 13,034,431 or more, virtual_level is L - 1    *)
(* for the smallest level L of 99..126 whose cumulative experience         *)
(* requirement exceeds the experience, and 126 when the experience is at   *)
(* or above the requirement of level 126; it never exceeds 126 and does    *)
(* not decrease as the experience grows.                                   *)
C26_VirtualLevelByRequirement ==
    /\ (LevelRead /\ request.skill.experience >= 13034431) =>
          LET above == {level \in 99..126 :
                           Requirement(level) > request.skill.experience}
          IN  /\ shown <= 126
              /\ request.skill.experience >= Requirement(126) => shown = 126
              /\ \A level \in above :
                    (\A o \in above : level <= o) => shown = level - 1
    /\ LevelRead =>
          \A lesser \in LevelSkills :
             (13034431 <= lesser.experience
              /\ lesser.experience <= request.skill.experience)
                => virtual_level(lesser) <= shown

(* C27: the requirement the loop of virtual_level computes for a level of  *)
(* 1..99 is the entry of the reference table for that level; for level 99  *)
(* it is 13,034,431.                                                       *)
C27_RequirementsMatchTable ==
    LevelRead =>
        /\ Len(xp_table) = 99
        /\ \A level \in DOMAIN xp_table : xp_for_level(level) = xp_table[level]
        /\ xp_for_level(99) = 13034431

(* C28: virtual_level is never lower than the nominal level: it is the     *)
(* level for an experience below 13,034,431, and for a skill of level 99   *)
(* with an experience of 13,034,431 or more (exactly that included) it is  *)
(* at least 99.                                                            *)
C28_NotBelowNominal ==
    LevelRead =>
        /\ request.skill.experience < 13034431 => shown = request.skill.level
        /\ (request.skill.level = 99 /\ request.skill.experience >= 13034431)
              => shown >= 99
        /\ shown >= request.skill.level

-----------------------------------------------------------------------------
(* Frame of analyze and of compute_journey_data *)

\* the fields of a profile other than the six computed ones
Given(p) ==
    [f \in DOMAIN p \ {"archetype", "archetype_description", "playstyle_scores",
                       "skill_category_xp", "top_skills", "top_bosses"}
       |-> p[f]]

====
